---- MODULE Spec2Model ----
(***************************************************************************)
(* Model of the backoffice admission workflow (src/src/workflow):          *)
(* ingestion (io.py), normalization (normalize.py), the rule engine        *)
(* (rules.py, engine.py), the quality gate (quality.py) and the            *)
(* orchestration, audit log and run manifest (run.py, audit.py).           *)
(*                                                                         *)
(* Conventions.                                                            *)
(*  - An optional value (Python None or a value) is a sequence of length   *)
(*    0 or 1: None == <<>>, Some(x) == <<x>>.                              *)
(*  - A float rate numer/denom is the exact rational [n |-> , d |-> ];     *)
(*    comparisons cross-multiply.  round(x, 4) is an integer number of     *)
(*    1/10000 units and is computed on the IEEE-754 double that the        *)
(*    division yields (see DoubleErrSign).                                 *)
(*  - A dict row is a TLA+ record; its keys are its DOMAIN.                *)
(*  - A sha256 digest is modelled collision-free: the digest of some bytes *)
(*    is the record [sha256_of |-> bytes].                                 *)
(*  - Timestamps, elapsed times, uuids and paths are left out.             *)
(***************************************************************************)
EXTENDS Integers, Sequences, FiniteSets, TLC

None == <<>>
Some(x) == <<x>>
IsNone(o) == o = <<>>
IsSome(o) == o # <<>>
TheVal(o) == o[1]

Range(s) == {s[i] : i \in 1..Len(s)}

(***************************************************************************)
(* Bounds                                                                  *)
(***************************************************************************)
\* longest list of records in an input file of the run specification
MaxRecords == 3
\* longest rule list given to validate in the engine specification
MaxRules == 3
\* number of records of the longer input files of the run specification
ReportRecords == 6
\* the risk scores of the model are the integers -MaxScore..MaxScore
MaxScore == 150
\* largest number of records in the counting specification
MaxTotal == 160
\* the long runs: the totals, and how far the number of invalid records is
\* from 40% of the total
LongTotalMin == 3995
LongTotalMax == 4010
LongSpread == 3

(***************************************************************************)
(* Strings: str.strip (the white space of the model is the blank), and     *)
(* str.upper, str.lower on the vocabulary of the model                     *)
(***************************************************************************)
RECURSIVE LStrip(_)
LStrip(s) ==
    IF Len(s) > 0 /\ SubSeq(s, 1, 1) = " " THEN LStrip(SubSeq(s, 2, Len(s))) ELSE s

RECURSIVE RStrip(_)
RStrip(s) ==
    IF Len(s) > 0 /\ SubSeq(s, Len(s), Len(s)) = " "
    THEN RStrip(SubSeq(s, 1, Len(s) - 1))
    ELSE s

Strip(s) == RStrip(LStrip(s))

Upper(s) ==
    CASE s = "ars" -> "ARS"
      [] s = "brl" -> "BRL"
      [] s = "ar" -> "AR"
      [] OTHER -> s

Lower(s) ==
    CASE s = "Cuenta" -> "cuenta"
      [] s = "AUTO" -> "auto"
      [] s = "JSON" -> "json"
      [] s = "NaN" -> "nan"
      [] s = "Infinity" -> "infinity"
      [] s = "TRUE" -> "true"
      [] OTHER -> s

(***************************************************************************)
(* models.py                                                               *)
(***************************************************************************)
RawFields == {"id_solicitud", "fecha_solicitud", "tipo_producto", "id_cliente",
              "monto_o_limite", "moneda", "pais", "is_vip", "risk_score"}

REQUIRED_COLUMNS == <<"id_solicitud", "fecha_solicitud", "tipo_producto",
                      "id_cliente", "monto_o_limite", "moneda", "pais",
                      "is_vip", "risk_score">>

(***************************************************************************)
(* normalize.py.  A parser returns [ok |-> TRUE, v |-> value] or           *)
(* [ok |-> FALSE, err |-> message] (NormalizationError raised).            *)
(***************************************************************************)
Ok(v) == [ok |-> TRUE, v |-> v]
Err(m) == [ok |-> FALSE, err |-> m]

\* datetime.strptime(s.strip(), "%Y-%m-%d"): the dates of the vocabulary
_parse_date(s) ==
    LET s2 == Strip(s) IN
    IF s2 \in {"2026-02-10", "2026-02-11"}
    THEN Ok(s2)
    ELSE Err("Invalid fecha_solicitud format (expected YYYY-MM-DD)")

\* A float is [nan |-> BOOLEAN, inf |-> -1, 0 or 1, v |-> Int]: a NaN, minus
\* or plus infinity, or the number v.
Number(v) == [nan |-> FALSE, inf |-> 0, v |-> v]
NaN == [nan |-> TRUE, inf |-> 0, v |-> 0]
Infinity(sign) == [nan |-> FALSE, inf |-> sign, v |-> 0]

\* float(s.strip()): float accepts the spellings nan, inf and infinity, in
\* any case and with a sign, and yields a NaN or an infinity
_parse_amount(s) ==
    LET s2 == Strip(s) IN
    IF s2 = "" THEN Err("monto_o_limite is empty")
    ELSE CASE s2 = "0" -> Ok(Number(0))
           [] s2 = "1" -> Ok(Number(1))
           [] s2 = "1000" -> Ok(Number(1000))
           [] s2 = "1000000" -> Ok(Number(1000000))
           [] s2 = "1000001" -> Ok(Number(1000001))
           [] Lower(s2) = "nan" -> Ok(NaN)
           [] Lower(s2) \in {"inf", "infinity"} -> Ok(Infinity(1))
           [] Lower(s2) \in {"-inf", "-infinity"} -> Ok(Infinity(0 - 1))
           [] OTHER -> Err("monto_o_limite is not numeric")

_parse_bool(s) ==
    LET s2 == Lower(Strip(s)) IN
    IF s2 \in {"true", "1", "yes", "y"} THEN Ok(TRUE)
    ELSE IF s2 \in {"false", "0", "no", "n"} THEN Ok(FALSE)
    ELSE Err("is_vip is not a boolean")

\* int(s.strip()) on the decimal spellings of the scores of the model
Scores == (0 - MaxScore)..MaxScore
ScoreStrings == {ToString(i) : i \in Scores}
IntOf == [str \in ScoreStrings |-> CHOOSE i \in Scores : ToString(i) = str]

_parse_int(s) ==
    LET s2 == Strip(s) IN
    IF s2 = "" THEN Err("risk_score is empty")
    ELSE IF s2 \in ScoreStrings THEN Ok(IntOf[s2])
    ELSE Err("risk_score is not an int")

\* variant of _risk_bucket: the lower threshold is compared with <=
_risk_bucket_Inclusive(score) ==
    IF score <= 34 THEN "LOW"
    ELSE IF score < 67 THEN "MED"
    ELSE "HIGH"

_risk_bucket(score) ==
    IF score < 34 THEN "LOW"
    ELSE IF score < 67 THEN "MED"
    ELSE "HIGH"

\* The keyword arguments of NormalizedRequest(...) are evaluated in order;
\* the first parser that raises decides the error.
normalize(raw) ==
    LET tipo == Lower(Strip(raw.tipo_producto))
        moneda == Upper(Strip(raw.moneda))
        pais == Upper(Strip(raw.pais))
        fecha == _parse_date(raw.fecha_solicitud)
        monto == _parse_amount(raw.monto_o_limite)
        vip == _parse_bool(raw.is_vip)
        score == _parse_int(raw.risk_score)
    IN  IF ~fecha.ok THEN Err(fecha.err)
        ELSE IF ~monto.ok THEN Err(monto.err)
        ELSE IF ~vip.ok THEN Err(vip.err)
        ELSE IF ~score.ok THEN Err(score.err)
        ELSE Ok([id_solicitud |-> Strip(raw.id_solicitud),
                 fecha_solicitud |-> fecha.v,
                 tipo_producto |-> tipo,
                 id_cliente |-> Strip(raw.id_cliente),
                 monto_o_limite |-> monto.v,
                 moneda |-> moneda,
                 pais |-> pais,
                 is_vip |-> vip.v,
                 risk_score |-> score.v,
                 risk_bucket |-> _risk_bucket(score.v)])

(***************************************************************************)
(* rules.py.  check returns None or Some(reason).                          *)
(***************************************************************************)
RequiredFieldsRule == [rule_id |-> "REQUIRED_FIELDS", severity |-> "HIGH"]
CurrencyAllowedRule == [rule_id |-> "CURRENCY_ALLOWED", severity |-> "MEDIUM"]
AmountRangeRule == [rule_id |-> "AMOUNT_RANGE", severity |-> "MEDIUM"]

CurrencyAllowed == {"ARS", "USD", "EUR"}
AmountMin == 1
AmountMax == 1000000

RequiredFieldsCheck(r) ==
    IF r.id_solicitud = "" THEN Some("id_solicitud is empty")
    ELSE IF r.id_cliente = "" THEN Some("id_cliente is empty")
    ELSE IF r.tipo_producto = "" THEN Some("tipo_producto is empty")
    ELSE IF r.moneda = "" THEN Some("moneda is empty")
    ELSE IF r.pais = "" THEN Some("pais is empty")
    ELSE None

CurrencyAllowedCheck(r) ==
    IF r.moneda \notin CurrencyAllowed THEN Some("moneda not in allowed list")
    ELSE None

\* a float compared with the number b; every comparison with a NaN is false
FloatLt(a, b) == ~a.nan /\ (a.inf < 0 \/ (a.inf = 0 /\ a.v < b))
FloatGt(a, b) == ~a.nan /\ (a.inf > 0 \/ (a.inf = 0 /\ a.v > b))

AmountRangeCheck(r) ==
    IF FloatLt(r.monto_o_limite, AmountMin) \/ FloatGt(r.monto_o_limite, AmountMax)
    THEN Some("monto_o_limite out of range")
    ELSE None

\* rule.check(r), dispatched on the rule object
Check(rule, r) ==
    CASE rule.rule_id = "REQUIRED_FIELDS" -> RequiredFieldsCheck(r)
      [] rule.rule_id = "CURRENCY_ALLOWED" -> CurrencyAllowedCheck(r)
      [] rule.rule_id = "AMOUNT_RANGE" -> AmountRangeCheck(r)

BaselineRules == <<RequiredFieldsRule, CurrencyAllowedRule, AmountRangeRule>>

(***************************************************************************)
(* engine.py                                                               *)
(***************************************************************************)
\* variant of ValidateIter: once a rule has failed, the later rules are not
\* checked
ValidateIter_ShortCircuit(st, rule, r) ==
    IF st.failures # <<>> THEN st
    ELSE LET reason == Check(rule, r) IN
         [failures |-> IF IsSome(reason)
                       THEN Append(st.failures,
                                   [rule_id |-> rule.rule_id,
                                    severity |-> rule.severity,
                                    reason |-> TheVal(reason)])
                       ELSE st.failures,
          calls |-> Append(st.calls, rule.rule_id)]

\* One iteration of the loop of validate: the rule is checked and, when it
\* returns a reason, a RuleFailure is appended.  calls records the rule ids
\* on which check was called, in call order (a history of the loop, not a
\* field of ValidationResult).
ValidateIter(st, rule, r) ==
    LET reason == Check(rule, r) IN
    [failures |-> IF IsSome(reason)
                  THEN Append(st.failures,
                              [rule_id |-> rule.rule_id,
                               severity |-> rule.severity,
                               reason |-> TheVal(reason)])
                  ELSE st.failures,
     calls |-> Append(st.calls, rule.rule_id)]

RECURSIVE ValidateLoop(_, _, _, _)
ValidateLoop(st, rules, i, r) ==
    IF i > Len(rules) THEN st
    ELSE ValidateLoop(ValidateIter(st, rules[i], r), rules, i + 1, r)

validate(r, rules) ==
    LET st == ValidateLoop([failures |-> <<>>, calls |-> <<>>], rules, 1, r) IN
    IF st.failures # <<>>
    THEN [decision |-> "REJECT", failures |-> st.failures, calls |-> st.calls]
    ELSE [decision |-> "ACCEPT", failures |-> <<>>, calls |-> st.calls]

(***************************************************************************)
(* Floats.  numer / denom is correctly rounded to a 53-bit double.         *)
(* DoubleErrSign(n, d) is the sign of double(n/d) - n/d, found by long     *)
(* division: the quotient is scaled into [1, 2), 53 bits are produced and  *)
(* the remainder decides the rounding (round to nearest, ties to even).    *)
(***************************************************************************)
MantissaBits == 53

RECURSIVE ScaleUp(_, _)
ScaleUp(n, d) == IF n >= d THEN [n |-> n, d |-> d] ELSE ScaleUp(2 * n, d)

RECURSIVE ScaleDown(_, _)
ScaleDown(n, d) == IF n < 2 * d THEN [n |-> n, d |-> d] ELSE ScaleDown(n, 2 * d)

RECURSIVE DivBits(_, _, _, _)
DivBits(r, d, k, last) ==
    IF k = 0
    THEN IF r = 0 THEN 0
         ELSE IF 2 * r < d THEN 0 - 1
         ELSE IF 2 * r > d THEN 1
         ELSE IF last = 1 THEN 1 ELSE 0 - 1
    ELSE IF 2 * r >= d THEN DivBits(2 * r - d, d, k - 1, 1)
         ELSE DivBits(2 * r, d, k - 1, 0)

DoubleErrSign(n, d) ==
    IF n = 0 THEN 0
    ELSE LET u == ScaleUp(n, d)
             s == ScaleDown(u.n, u.d)
         IN  DivBits(s.n - s.d, s.d, MantissaBits - 1, 1)

(***************************************************************************)
(* quality.py                                                              *)
(***************************************************************************)
Rate(n, d) == [n |-> n, d |-> d]
RateLt(a, b) == a.n * b.d < b.n * a.d
RateGt(a, b) == a.n * b.d > b.n * a.d

_safe_rate(numer, denom) == IF denom <= 0 THEN Rate(0, 1) ELSE Rate(numer, denom)

RateScale == 10000

\* round(x, 4), in units of 1/10000.  Python rounds the exact value of the
\* double correctly (ties to even), so a rational that lies exactly between
\* two multiples of 1/10000 goes where the error of its double points.
_round4(x) ==
    LET num == x.n * RateScale
        q == num \div x.d
        rem == num % x.d
    IN  IF 2 * rem < x.d THEN q
        ELSE IF 2 * rem > x.d THEN q + 1
        ELSE LET e == DoubleErrSign(x.n, x.d) IN
             IF e > 0 THEN q + 1
             ELSE IF e < 0 THEN q
             ELSE IF q % 2 = 0 THEN q ELSE q + 1

\* QualityGatePolicy()
QualityGatePolicy ==
    [policy_id |-> "quality_gate.v1",
     max_rejection_rate |-> Rate(40, 100),
     min_acceptance_rate |-> Rate(10, 100)]

MetricsSnapshot(acceptance_rate, rejection_rate) ==
    [acceptance_rate |-> _round4(acceptance_rate),
     rejection_rate |-> _round4(rejection_rate)]

\* QualityGateDecision(...); the rationale is the message with its two
\* numbers formatted with :.4f
QualityGateDecision(decision, text, value, threshold, policy, acc_rate, rej_rate) ==
    [decision |-> decision,
     rationale |-> [text |-> text, value |-> value, threshold |-> threshold],
     policy_id |-> policy.policy_id,
     metrics_snapshot |-> MetricsSnapshot(acc_rate, rej_rate)]

\* variants of evaluate_quality_gate: rule 1 also fires at the threshold;
\* rule 1 compares the wrong way round
evaluate_quality_gate_AtThreshold(acceptance_rate, rejection_rate, policy) ==
    IF ~RateLt(rejection_rate, policy.max_rejection_rate)
    THEN QualityGateDecision("WARN", "Rejection rate above threshold",
                             _round4(rejection_rate), _round4(policy.max_rejection_rate),
                             policy, acceptance_rate, rejection_rate)
    ELSE IF RateLt(acceptance_rate, policy.min_acceptance_rate)
    THEN QualityGateDecision("WARN", "Acceptance rate below minimum",
                             _round4(acceptance_rate), _round4(policy.min_acceptance_rate),
                             policy, acceptance_rate, rejection_rate)
    ELSE QualityGateDecision("PASS", "Quality gate passed", 0, 0,
                             policy, acceptance_rate, rejection_rate)

evaluate_quality_gate_Inverted(acceptance_rate, rejection_rate, policy) ==
    IF RateLt(rejection_rate, policy.max_rejection_rate)
    THEN QualityGateDecision("WARN", "Rejection rate above threshold",
                             _round4(rejection_rate), _round4(policy.max_rejection_rate),
                             policy, acceptance_rate, rejection_rate)
    ELSE IF RateLt(acceptance_rate, policy.min_acceptance_rate)
    THEN QualityGateDecision("WARN", "Acceptance rate below minimum",
                             _round4(acceptance_rate), _round4(policy.min_acceptance_rate),
                             policy, acceptance_rate, rejection_rate)
    ELSE QualityGateDecision("PASS", "Quality gate passed", 0, 0,
                             policy, acceptance_rate, rejection_rate)

\* variant of evaluate_quality_gate: the acceptance rule is tried first
evaluate_quality_gate_AcceptanceFirst(acceptance_rate, rejection_rate, policy) ==
    IF RateLt(acceptance_rate, policy.min_acceptance_rate)
    THEN QualityGateDecision("WARN", "Acceptance rate below minimum",
                             _round4(acceptance_rate), _round4(policy.min_acceptance_rate),
                             policy, acceptance_rate, rejection_rate)
    ELSE IF RateGt(rejection_rate, policy.max_rejection_rate)
    THEN QualityGateDecision("WARN", "Rejection rate above threshold",
                             _round4(rejection_rate), _round4(policy.max_rejection_rate),
                             policy, acceptance_rate, rejection_rate)
    ELSE QualityGateDecision("PASS", "Quality gate passed", 0, 0,
                             policy, acceptance_rate, rejection_rate)

evaluate_quality_gate(acceptance_rate, rejection_rate, policy) ==
    IF RateGt(rejection_rate, policy.max_rejection_rate)
    THEN QualityGateDecision("WARN", "Rejection rate above threshold",
                             _round4(rejection_rate), _round4(policy.max_rejection_rate),
                             policy, acceptance_rate, rejection_rate)
    ELSE IF RateLt(acceptance_rate, policy.min_acceptance_rate)
    THEN QualityGateDecision("WARN", "Acceptance rate below minimum",
                             _round4(acceptance_rate), _round4(policy.min_acceptance_rate),
                             policy, acceptance_rate, rejection_rate)
    ELSE QualityGateDecision("PASS", "Quality gate passed", 0, 0,
                             policy, acceptance_rate, rejection_rate)

(***************************************************************************)
(* io.py.  An input file is [exists, suffix, content]; the content is one  *)
(* of                                                                      *)
(*   [kind |-> "table", empty, seps, sep, cols, rows]   csv / delimited    *)
(*       empty: the file has no non-blank line; seps: the candidate        *)
(*       separators occurring in the first non-blank line; sep: the one    *)
(*       that separates its columns; cols: the header's column names;      *)
(*       rows: the data rows as mappings                                   *)
(*   [kind |-> "json", wellformed, root, items]                            *)
(*       root: "list", "wrapper" ({"requests": list}), "wrapper_other"     *)
(*       ({"requests": not a list}), "object" (no requests key), "scalar"  *)
(*   [kind |-> "fixed", lines]    each line a string                       *)
(* A mapping (a csv.DictReader row or a JSON object) is                    *)
(*   [object, keys, nulls, vals]: keys present, keys whose value is None,  *)
(*   and the values.  A reader returns Ok(rows) or Err(message)            *)
(*   (InputFormatError raised).                                            *)
(***************************************************************************)
_build_raw_request(row) ==
    [k \in RawFields |->
        IF k \notin row.keys \/ k \in row.nulls THEN "" ELSE row.vals[k]]

\* Ok(TRUE), or the error naming the missing columns
_assert_required_columns(cols) ==
    LET missing == SelectSeq(REQUIRED_COLUMNS, LAMBDA c : c \notin cols) IN
    IF missing # <<>>
    THEN Err([text |-> "Input missing required columns", missing |-> missing])
    ELSE Ok(TRUE)

BuildAll(rows) == [i \in 1..Len(rows) |-> _build_raw_request(rows[i])]

\* the header as csv.DictReader splits it with the given delimiter
HeaderCols(content, delimiter) ==
    IF content.sep = delimiter THEN content.cols ELSE {"<whole header line>"}

read_csv(file) ==
    IF ~file.exists THEN Err([text |-> "Input file not found"])
    ELSE IF file.content.empty THEN Err([text |-> "CSV has no header row"])
    ELSE LET a == _assert_required_columns(HeaderCols(file.content, ",")) IN
         IF ~a.ok THEN a ELSE Ok(BuildAll(file.content.rows))

DelimiterCandidates == <<"|", "\t", ";", ",">>

\* the first candidate contained in the header line, or None
_detect_delimiter(seps) ==
    LET found == SelectSeq(DelimiterCandidates, LAMBDA c : c \in seps) IN
    IF found = <<>> THEN None ELSE Some(found[1])

read_txt_delimited(file) ==
    IF ~file.exists THEN Err([text |-> "Input file not found"])
    ELSE IF file.content.empty THEN Err([text |-> "TXT input is empty"])
    ELSE LET delim == _detect_delimiter(file.content.seps) IN
         IF IsNone(delim)
         THEN Err([text |-> "TXT format not recognized as delimited text"])
         ELSE LET a == _assert_required_columns(HeaderCols(file.content, TheVal(delim))) IN
              IF ~a.ok THEN a ELSE Ok(BuildAll(file.content.rows))

\* variant of JsonRows: an element that is not an object is skipped
RECURSIVE JsonRows_SkipsBad(_, _, _)
JsonRows_SkipsBad(items, i, rows) ==
    IF i > Len(items) THEN Ok(rows)
    ELSE IF ~items[i].object THEN JsonRows_SkipsBad(items, i + 1, rows)
    ELSE LET a == _assert_required_columns(items[i].keys) IN
         IF ~a.ok THEN a
         ELSE JsonRows_SkipsBad(items, i + 1, Append(rows, _build_raw_request(items[i])))

\* the loop over the records: the first bad element raises, nothing is returned
RECURSIVE JsonRows(_, _, _)
JsonRows(items, i, rows) ==
    IF i > Len(items) THEN Ok(rows)
    ELSE IF ~items[i].object
         THEN Err([text |-> "JSON record is not an object", index |-> i - 1])
    ELSE LET a == _assert_required_columns(items[i].keys) IN
         IF ~a.ok THEN a
         ELSE JsonRows(items, i + 1, Append(rows, _build_raw_request(items[i])))

read_json(file) ==
    IF ~file.exists THEN Err([text |-> "Input file not found"])
    ELSE IF ~file.content.wellformed THEN Err([text |-> "Invalid JSON file"])
    ELSE IF file.content.root \notin {"list", "wrapper"}
         THEN Err([text |-> "JSON root must be a list or object with 'requests' list"])
    ELSE JsonRows(file.content.items, 1, <<>>)

DEFAULT_COBOL_LAYOUT ==
    <<[name |-> "id_solicitud", start |-> 0, end |-> 12],
      [name |-> "fecha_solicitud", start |-> 12, end |-> 22],
      [name |-> "tipo_producto", start |-> 22, end |-> 34],
      [name |-> "id_cliente", start |-> 34, end |-> 46],
      [name |-> "monto_o_limite", start |-> 46, end |-> 58],
      [name |-> "moneda", start |-> 58, end |-> 61],
      [name |-> "pais", start |-> 61, end |-> 63],
      [name |-> "is_vip", start |-> 63, end |-> 68],
      [name |-> "risk_score", start |-> 68, end |-> 71]>>

\* line[start:end]: the characters start .. end - 1 (0-based) that the line has
Slice(line, start, end) ==
    LET hi == IF end < Len(line) THEN end ELSE Len(line) IN
    IF start >= hi THEN "" ELSE SubSeq(line, start + 1, hi)

\* {f.name: line[f.start : f.end].strip() for f in layout}
FixedRow(line) ==
    [k \in {DEFAULT_COBOL_LAYOUT[j].name : j \in 1..Len(DEFAULT_COBOL_LAYOUT)} |->
        LET f == CHOOSE g \in Range(DEFAULT_COBOL_LAYOUT) : g.name = k
        IN  Strip(Slice(line, f.start, f.end))]

\* variant of FixedRows: a blank line is sliced like any other line
RECURSIVE FixedRows_KeepsBlank(_, _, _)
FixedRows_KeepsBlank(lines, i, rows) ==
    IF i > Len(lines) THEN rows
    ELSE FixedRows_KeepsBlank(lines, i + 1,
                   Append(rows, _build_raw_request(
                       [object |-> TRUE, keys |-> DOMAIN FixedRow(lines[i]), nulls |-> {},
                        vals |-> FixedRow(lines[i])])))

\* a line is a string; each non-blank line is sliced by the layout and every
\* slice is stripped; the layout names every required column, so the
\* layout mismatch is never raised
RECURSIVE FixedRows(_, _, _)
FixedRows(lines, i, rows) ==
    IF i > Len(lines) THEN rows
    ELSE IF Strip(lines[i]) = "" THEN FixedRows(lines, i + 1, rows)
    ELSE FixedRows(lines, i + 1,
                   Append(rows, _build_raw_request(
                       [object |-> TRUE, keys |-> DOMAIN FixedRow(lines[i]), nulls |-> {},
                        vals |-> FixedRow(lines[i])])))

read_cobol_fixed_width(file) ==
    IF ~file.exists THEN Err([text |-> "Input file not found"])
    ELSE LET rows == FixedRows(file.content.lines, 1, <<>>) IN
         IF rows = <<>> THEN Err([text |-> "Fixed-width input has no data rows"])
         ELSE Ok(rows)

\* the reader branch read_requests takes: "csv", "json", "txt", "cobol", or
\* "unsupported_extension" / "unsupported_format" when it raises at once
ReaderBranch(suffix, input_format) ==
    LET fmt == Lower(Strip(input_format))
        sfx == Lower(suffix)
        fmt2 == IF fmt # "auto" THEN fmt
                ELSE IF sfx = ".csv" THEN "csv"
                ELSE IF sfx = ".json" THEN "json"
                ELSE IF sfx = ".txt" THEN "txt"
                ELSE IF sfx \in {".dat", ".cob"} THEN "cobol"
                ELSE "unsupported_extension"
    IN  IF fmt2 \in {"csv", "json", "txt", "unsupported_extension"} THEN fmt2
        ELSE IF fmt2 \in {"cobol", "fixed", "fixed-width"} THEN "cobol"
        ELSE "unsupported_format"

read_requests(file, input_format) ==
    LET b == ReaderBranch(file.suffix, input_format) IN
    CASE b = "unsupported_extension" -> Err([text |-> "Unsupported input extension"])
      [] b = "csv" -> read_csv(file)
      [] b = "json" -> read_json(file)
      [] b = "txt" -> read_txt_delimited(file)
      [] b = "cobol" -> read_cobol_fixed_width(file)
      [] OTHER -> Err([text |-> "Unsupported format"])

\* csv.DictWriter over the rows: the header is the key list of the first
\* row; a row lacking a field gets "" for it; a row with a key that is not
\* in the header raises ValueError after the rows before it were written.
\* Result: [file |-> what is on disk, raised |-> BOOLEAN].
RowKeyOrder == <<"id_solicitud", "fecha_solicitud", "tipo_producto", "id_cliente",
                 "monto_o_limite", "moneda", "pais", "is_vip", "risk_score",
                 "risk_bucket", "reject_rule_ids", "reject_reasons">>

RowKeys(row) == SelectSeq(RowKeyOrder, LAMBDA k : k \in DOMAIN row)

\* str(value) as the csv writer applies it to a float, a bool and an int
FloatStr(a) ==
    IF a.nan THEN "nan"
    ELSE IF a.inf > 0 THEN "inf"
    ELSE IF a.inf < 0 THEN "-inf"
    ELSE CASE a.v = 0 -> "0.0"
           [] a.v = 1 -> "1.0"
           [] a.v = 1000 -> "1000.0"
           [] a.v = 1000000 -> "1000000.0"
           [] a.v = 1000001 -> "1000001.0"

IntStr(i) == ToString(i)

CsvStr(k, v) ==
    CASE k = "monto_o_limite" -> FloatStr(v)
      [] k = "is_vip" -> IF v THEN "True" ELSE "False"
      [] k = "risk_score" -> IntStr(v)
      [] OTHER -> v

CsvLine(row, fieldnames) ==
    [k \in Range(fieldnames) |-> IF k \in DOMAIN row THEN CsvStr(k, row[k]) ELSE ""]

RECURSIVE WriteRows(_, _, _, _)
WriteRows(rows, i, fieldnames, written) ==
    IF i > Len(rows) THEN [file |-> [header |-> fieldnames, rows |-> written],
                           raised |-> FALSE]
    ELSE IF ~(DOMAIN rows[i] \subseteq Range(fieldnames))
         THEN [file |-> [header |-> fieldnames, rows |-> written], raised |-> TRUE]
    ELSE WriteRows(rows, i + 1, fieldnames, Append(written, CsvLine(rows[i], fieldnames)))

write_clean_csv(rows) ==
    IF rows = <<>>
    THEN [file |-> [header |-> <<>>, rows |-> <<>>], raised |-> FALSE]
    ELSE WriteRows(rows, 1, RowKeys(rows[1]), <<>>)

(***************************************************************************)
(* run.py: helpers of main                                                 *)
(***************************************************************************)
_resolve_format(suffix, requested) ==
    LET fmt == Lower(Strip(requested))
        sfx == Lower(suffix)
    IN  IF fmt # "auto" THEN fmt
        ELSE IF sfx = ".csv" THEN "csv"
        ELSE IF sfx = ".json" THEN "json"
        ELSE IF sfx = ".txt" THEN "txt"
        ELSE IF sfx \in {".dat", ".cob"} THEN "cobol"
        ELSE "unknown"

Sha256(bytes) == [sha256_of |-> bytes]

ArtifactNames == <<"decision_log", "normalized_requests", "rejected_requests",
                   "data_quality_report", "run_manifest">>

EmptyDict == [k \in {} |-> None]

\* d[k].append(v) on a defaultdict(list)
DictAppend(d, k, v) ==
    IF k \in DOMAIN d THEN [d EXCEPT ![k] = Append(@, v)]
    ELSE [x \in DOMAIN d \cup {k} |-> IF x = k THEN <<v>> ELSE d[x]]

RECURSIVE AppendFailures(_, _, _, _)
AppendFailures(d, failures, i, record_id) ==
    IF i > Len(failures) THEN d
    ELSE AppendFailures(DictAppend(d, failures[i].rule_id, record_id),
                        failures, i + 1, record_id)

\* "|".join(ids) and " | ".join(reasons)
RECURSIVE Join(_, _)
Join(strs, sep) ==
    IF strs = <<>> THEN ""
    ELSE IF Len(strs) = 1 THEN strs[1]
    ELSE strs[1] \o sep \o Join(Tail(strs), sep)

\* variant of MANIFEST_BASE: the rule list is filled in from the start
MANIFEST_BASE_WithRules(file, format) ==
    [status |-> "RUNNING",
     error |-> None,
     input |-> [format |-> _resolve_format(file.suffix, format),
                format_requested |-> format,
                format_resolved |-> _resolve_format(file.suffix, format),
                sha256 |-> IF file.exists THEN Some(Sha256(file.content)) ELSE None],
     quality_gate |-> [policy |-> None, decision |-> None, rationale |-> None,
                       metrics_snapshot |-> None],
     artifacts_integrity |-> EmptyDict,
     rules |-> <<[rule_id |-> "REQUIRED_FIELDS", severity |-> "HIGH",
                  scope |-> "eligibility"]>>,
     counts |-> None]

MANIFEST_BASE(file, format) ==
    [status |-> "RUNNING",
     error |-> None,
     input |-> [format |-> _resolve_format(file.suffix, format),
                format_requested |-> format,
                format_resolved |-> _resolve_format(file.suffix, format),
                sha256 |-> IF file.exists THEN Some(Sha256(file.content)) ELSE None],
     quality_gate |-> [policy |-> None, decision |-> None, rationale |-> None,
                       metrics_snapshot |-> None],
     artifacts_integrity |-> EmptyDict,
     rules |-> <<>>,
     counts |-> None]

AuditEvent(level, stage, event, message, extra) ==
    [level |-> level, stage |-> stage, event |-> event, message |-> message,
     extra |-> extra]

(***************************************************************************)
(* quality.py: the report                                                  *)
(***************************************************************************)
\* the rule ids of the model in the order sorted() gives them
RuleIdOrder == <<"AMOUNT_RANGE", "CURRENCY_ALLOWED", "NORMALIZATION_ERROR",
                 "REQUIRED_FIELDS">>

MaxExamples == 3

Min(a, b) == IF a < b THEN a ELSE b

\* variant of build_quality_report: the examples are the last three ids
build_quality_report_LastExamples(total, valid_, invalid_, failures) ==
    LET ids == SelectSeq(RuleIdOrder, LAMBDA k : k \in DOMAIN failures)
        detail(rule_id) ==
            LET examples == failures[rule_id]
                failed_count == Len(examples)
            IN  [rule_id |-> rule_id,
                 failed_count |-> failed_count,
                 pass_rate |-> IF total = 0 THEN 0
                               ELSE _round4(Rate(total - failed_count, total)),
                 examples |-> SubSeq(examples,
                                     failed_count - Min(MaxExamples, failed_count) + 1,
                                     failed_count)]
    IN  [totals |-> [total |-> total, valid |-> valid_, invalid |-> invalid_],
         rule_details |-> [i \in 1..Len(ids) |-> detail(ids[i])]]

build_quality_report(total, valid_, invalid_, failures) ==
    LET ids == SelectSeq(RuleIdOrder, LAMBDA k : k \in DOMAIN failures)
        detail(rule_id) ==
            LET examples == failures[rule_id]
                failed_count == Len(examples)
            IN  [rule_id |-> rule_id,
                 failed_count |-> failed_count,
                 pass_rate |-> IF total = 0 THEN 0
                               ELSE _round4(Rate(total - failed_count, total)),
                 examples |-> SubSeq(examples, 1, Min(MaxExamples, failed_count))]
    IN  [totals |-> [total |-> total, valid |-> valid_, invalid |-> invalid_],
         rule_details |-> [i \in 1..Len(ids) |-> detail(ids[i])]]

PolicyPayload(policy) ==
    [policy_id |-> policy.policy_id,
     max_rejection_rate |-> _round4(policy.max_rejection_rate),
     min_acceptance_rate |-> _round4(policy.min_acceptance_rate)]

\* the payload write_quality_report writes (policy defaults to QualityGatePolicy())
write_quality_report(report) ==
    LET total == report.totals.total
        acceptance_rate == _safe_rate(report.totals.valid, total)
        rejection_rate == _safe_rate(report.totals.invalid, total)
        effective_policy == QualityGatePolicy
        gate_ == evaluate_quality_gate(acceptance_rate, rejection_rate, effective_policy)
    IN  [totals |-> [total |-> total,
                     valid |-> report.totals.valid,
                     invalid |-> report.totals.invalid,
                     acceptance_rate |-> _round4(acceptance_rate),
                     rejection_rate |-> _round4(rejection_rate)],
         rule_details |-> report.rule_details,
         failure_rate_by_rule |->
             [k \in {report.rule_details[i].rule_id : i \in 1..Len(report.rule_details)} |->
                 LET d == CHOOSE x \in Range(report.rule_details) : x.rule_id = k
                 IN  _round4(_safe_rate(d.failed_count, total))],
         quality_gate |-> [policy |-> PolicyPayload(effective_policy),
                           decision |-> gate_.decision,
                           rationale |-> gate_.rationale,
                           metrics_snapshot |-> gate_.metrics_snapshot]]

(***************************************************************************)
(* Inputs of a run: the command line (--format) and the input file.        *)
(***************************************************************************)
\* the id of the i-th record of a file; the first one is padded
RawId(i) == IF i = 1 THEN " REQ-1 " ELSE "REQ-" \o ToString(i)

GoodRaw(i) ==
    [id_solicitud |-> RawId(i), fecha_solicitud |-> "2026-02-10",
     tipo_producto |-> "Cuenta", id_cliente |-> "CLI-1",
     monto_o_limite |-> "1000", moneda |-> "ars ", pais |-> "ar",
     is_vip |-> "TRUE", risk_score |-> "40"]

\* what a record of the pool changes in GoodRaw: nothing, or one field
RawVariants ==
    {[field |-> "none", value |-> ""],
     [field |-> "fecha_solicitud", value |-> "2026/02/10"],
     [field |-> "monto_o_limite", value |-> "0"],
     [field |-> "monto_o_limite", value |-> "nan"],
     [field |-> "moneda", value |-> "brl"],
     [field |-> "moneda", value |-> " "]}

RawOf(i, variant) ==
    [k \in RawFields |-> IF k = variant.field THEN variant.value ELSE GoodRaw(i)[k]]

\* the lists of at most n records, the i-th with the i-th id
RawSeqs(n) ==
    UNION {{[i \in 1..k |-> RawOf(i, vs[i])] : vs \in [1..k -> RawVariants]} : k \in 0..n}

Mapping(raw) == [object |-> TRUE, keys |-> RawFields, nulls |-> {}, vals |-> raw]
Mappings(raws) == [i \in 1..Len(raws) |-> Mapping(raws[i])]

Table(empty, seps, sep, cols, raws) ==
    [kind |-> "table", empty |-> empty, seps |-> seps, sep |-> sep,
     cols |-> cols, rows |-> Mappings(raws)]

Json(wellformed, root, items) ==
    [kind |-> "json", wellformed |-> wellformed, root |-> root, items |-> items]

Fixed(lines) == [kind |-> "fixed", lines |-> lines]

\* n blanks
RECURSIVE Spaces(_)
Spaces(n) == IF n <= 0 THEN "" ELSE " " \o Spaces(n - 1)

\* the string cut or padded on the right to the width w
Pad(str, w) == IF Len(str) >= w THEN SubSeq(str, 1, w) ELSE str \o Spaces(w - Len(str))

\* the fixed-width line of a record: every field padded to its width
RECURSIVE LineFrom(_, _)
LineFrom(raw, j) ==
    IF j > Len(DEFAULT_COBOL_LAYOUT) THEN ""
    ELSE LET f == DEFAULT_COBOL_LAYOUT[j]
         IN  Pad(raw[f.name], f.end - f.start) \o LineFrom(raw, j + 1)

BlankLine == "   "
DataLine(raw) == LineFrom(raw, 1)

TableContents ==
    {Table(TRUE, {}, "none", {}, <<>>),
     Table(FALSE, {","}, ",", RawFields, <<>>),
     Table(FALSE, {","}, ",", RawFields, <<GoodRaw(1)>>),
     Table(FALSE, {","}, ",", RawFields \ {"moneda"}, <<GoodRaw(1)>>),
     Table(FALSE, {";"}, ";", RawFields, <<GoodRaw(1)>>),
     Table(FALSE, {"|", ","}, ",", RawFields, <<GoodRaw(1)>>),
     Table(FALSE, {}, "none", {"id_solicitud"}, <<GoodRaw(1)>>)}

JsonContents ==
    {Json(FALSE, "scalar", <<>>),
     Json(TRUE, "scalar", <<>>),
     Json(TRUE, "object", <<>>),
     Json(TRUE, "wrapper_other", <<>>),
     Json(TRUE, "wrapper", <<Mapping(GoodRaw(1))>>),
     Json(TRUE, "list", <<Mapping(GoodRaw(1)),
                          [object |-> FALSE, keys |-> {}, nulls |-> {}, vals |-> GoodRaw(2)]>>),
     Json(TRUE, "list", <<Mapping(GoodRaw(1)),
                          [object |-> TRUE, keys |-> RawFields \ {"pais"}, nulls |-> {},
                           vals |-> GoodRaw(2)]>>),
     Json(TRUE, "list", <<[object |-> TRUE, keys |-> RawFields, nulls |-> {"id_cliente"},
                           vals |-> GoodRaw(1)]>>)}

FixedContents ==
    {Fixed(<<>>),
     Fixed(<<BlankLine>>),
     Fixed(<<BlankLine, DataLine(GoodRaw(1)), BlankLine>>)}

Formats == {"auto", " AUTO ", "csv", "JSON", "txt", "cobol", "fixed", "xml"}
Suffixes == {".csv", ".json", ".txt", ".dat", ".cob", ".xml"}

\* the contents a reader branch is given: a file of the kind it reads
ContentsFor(branch) ==
    CASE branch = "csv" -> TableContents
      [] branch = "txt" -> TableContents
      [] branch = "json" -> JsonContents
      [] branch = "cobol" -> FixedContents
      [] OTHER -> {Table(FALSE, {","}, ",", RawFields, <<GoodRaw(1)>>)}

\* what a record of a longer file changes in GoodRaw: nothing, an amount
\* out of range, or an empty currency (two rules fail)
ReportVariants ==
    {[field |-> "none", value |-> ""],
     [field |-> "monto_o_limite", value |-> "0"],
     [field |-> "moneda", value |-> " "]}

\* the lists of exactly n such records
ReportSeqs(n) == {[i \in 1..n |-> RawOf(i, vs[i])] : vs \in [1..n -> ReportVariants]}

Inputs ==
    {[format |-> "json",
      file |-> [exists |-> TRUE, suffix |-> ".json",
                content |-> Json(TRUE, "list", Mappings(raws))]] :
        raws \in RawSeqs(MaxRecords) \cup ReportSeqs(ReportRecords)}
    \cup
    UNION {UNION {{[format |-> f, file |-> [exists |-> e, suffix |-> sfx, content |-> c]] :
                      c \in ContentsFor(ReaderBranch(sfx, f)), e \in {TRUE}} :
                  sfx \in Suffixes} : f \in Formats}
    \cup
    {[format |-> f, file |-> [exists |-> FALSE, suffix |-> ".csv",
                              content |-> Table(TRUE, {}, "none", {}, <<>>)]] :
        f \in {"auto", "csv", "json", "txt", "cobol"}}

(***************************************************************************)
(* State of a run of main                                                  *)
(***************************************************************************)
VARIABLES
    pc,                \* position of main
    args,              \* [format, file]: the command line and the input file
    manifest,          \* the manifest dict in memory
    disk,              \* the files of the run directory
    raw_rows,          \* the list read_requests returned
    idx,               \* position of the for loop in raw_rows (1-based)
    valid, invalid,
    clean_out, rejected_out,
    failures_by_rule,
    rates,             \* None, or Some of the two rates main computed
    gate,              \* None, or Some(QualityGateDecision)
    rc,                \* None, or Some(exit code main returned)
    fn                 \* the call of the function specifications (below)

mainvars == <<pc, args, manifest, disk, raw_rows, idx, valid, invalid,
              clean_out, rejected_out, failures_by_rule, rates, gate, rc>>

vars == <<pc, args, manifest, disk, raw_rows, idx, valid, invalid,
          clean_out, rejected_out, failures_by_rule, rates, gate, rc, fn>>

\* no function is being called
NoCall == [name |-> "none"]

EmptyDisk ==
    [decision_log |-> <<>>, normalized_requests |-> None, rejected_requests |-> None,
     data_quality_report |-> None, run_manifest |-> None]

\* variant of Emit: the file is opened for writing, not for appending
Emit_Overwrites(d, ev) == [d EXCEPT !.decision_log = <<ev>>]

\* AuditLogger.emit: the file is opened in mode "a" and one line is written
Emit(d, ev) == [d EXCEPT !.decision_log = Append(@, ev)]
WriteManifest(d, m) == [d EXCEPT !.run_manifest = Some(m)]

Init ==
    /\ pc = "start"
    /\ args \in Inputs
    /\ manifest = MANIFEST_BASE(args.file, args.format)
    /\ disk = EmptyDisk
    /\ raw_rows = <<>>
    /\ idx = 1
    /\ valid = 0
    /\ invalid = 0
    /\ clean_out = <<>>
    /\ rejected_out = <<>>
    /\ failures_by_rule = EmptyDict
    /\ rates = None
    /\ gate = None
    /\ rc = None
    /\ fn = NoCall

\* lines 154-220: the manifest is written with status RUNNING, run_started is logged
Start ==
    /\ pc = "start"
    /\ disk' = Emit(WriteManifest(disk, manifest),
                    AuditEvent("INFO", "workflow", "run_started",
                               "Workflow execution started",
                               [format_resolved |-> manifest.input.format_resolved]))
    /\ pc' = "ingest"
    /\ UNCHANGED <<fn, rates, args, manifest, raw_rows, idx, valid, invalid, clean_out,
                   rejected_out, failures_by_rule, gate, rc>>

\* lines 225-236
IngestOk ==
    /\ pc = "ingest"
    /\ LET res == read_requests(args.file, args.format) IN
        /\ res.ok
        /\ raw_rows' = res.v
        /\ disk' = Emit(disk, AuditEvent("INFO", "ingest", "input_loaded",
                                         "Input file loaded", [rows |-> Len(res.v)]))
    /\ pc' = "rules"
    /\ UNCHANGED <<fn, rates, args, manifest, idx, valid, invalid, clean_out, rejected_out,
                   failures_by_rule, gate, rc>>

\* lines 237-244
IngestFail ==
    /\ pc = "ingest"
    /\ LET res == read_requests(args.file, args.format) IN
        /\ ~res.ok
        /\ manifest' = [manifest EXCEPT !.status = "FAILED", !.error = Some(res.err)]
        /\ disk' = Emit(WriteManifest(disk, manifest'),
                        AuditEvent("ERROR", "ingest", "input_invalid", res.err,
                                   [rows |-> 0]))
    /\ rc' = Some(2)
    /\ pc' = "done"
    /\ UNCHANGED <<fn, rates, args, raw_rows, idx, valid, invalid, clean_out, rejected_out,
                   failures_by_rule, gate>>

\* lines 249-260
SelectRules ==
    /\ pc = "rules"
    /\ manifest' = [manifest EXCEPT !.rules =
                       [i \in 1..Len(BaselineRules) |->
                           [rule_id |-> BaselineRules[i].rule_id,
                            severity |-> BaselineRules[i].severity,
                            scope |-> "eligibility"]]]
    /\ disk' = WriteManifest(disk, manifest')
    /\ failures_by_rule' = EmptyDict
    /\ clean_out' = <<>>
    /\ rejected_out' = <<>>
    /\ valid' = 0
    /\ invalid' = 0
    /\ idx' = 1
    /\ pc' = "loop"
    /\ UNCHANGED <<fn, rates, args, raw_rows, gate, rc>>

(***************************************************************************)
(* The per-record loop (lines 267-342): one action per outcome of a record *)
(***************************************************************************)
CleanRow(n) ==
    [id_solicitud |-> n.id_solicitud, fecha_solicitud |-> n.fecha_solicitud,
     tipo_producto |-> n.tipo_producto, id_cliente |-> n.id_cliente,
     monto_o_limite |-> n.monto_o_limite, moneda |-> n.moneda, pais |-> n.pais,
     is_vip |-> n.is_vip, risk_score |-> n.risk_score, risk_bucket |-> n.risk_bucket]

RuleIdsOf(failures) == [i \in 1..Len(failures) |-> failures[i].rule_id]
ReasonsOf(failures) == [i \in 1..Len(failures) |-> failures[i].reason]

RejectedRow(n, failures) ==
    [id_solicitud |-> n.id_solicitud, fecha_solicitud |-> n.fecha_solicitud,
     tipo_producto |-> n.tipo_producto, id_cliente |-> n.id_cliente,
     monto_o_limite |-> n.monto_o_limite, moneda |-> n.moneda, pais |-> n.pais,
     is_vip |-> n.is_vip, risk_score |-> n.risk_score, risk_bucket |-> n.risk_bucket,
     reject_rule_ids |-> Join(RuleIdsOf(failures), "|"),
     reject_reasons |-> Join(ReasonsOf(failures), " | ")]

NormalizationErrorRow(record_id, message) ==
    [id_solicitud |-> record_id,
     reject_rule_ids |-> "NORMALIZATION_ERROR",
     reject_reasons |-> message]

\* variant of RecordNormalizationError: the record is not counted
RecordNormalizationError_NotCounted ==
    /\ pc = "loop"
    /\ idx <= Len(raw_rows)
    /\ LET raw == raw_rows[idx]
           record_id == Strip(raw.id_solicitud)
           normalized == normalize(raw)
       IN  /\ ~normalized.ok
           /\ failures_by_rule' = DictAppend(failures_by_rule, "NORMALIZATION_ERROR", record_id)
           /\ rejected_out' = Append(rejected_out,
                                     NormalizationErrorRow(record_id, normalized.err))
           /\ disk' = Emit(disk, AuditEvent("WARN", "normalize", "record_rejected",
                                            "Normalization failed",
                                            [record_id |-> record_id,
                                             rule_ids |-> <<"NORMALIZATION_ERROR">>]))
    /\ idx' = idx + 1
    /\ UNCHANGED <<fn, rates, pc, args, manifest, raw_rows, valid, invalid, clean_out,
                   gate, rc>>

\* lines 272-291
RecordNormalizationError ==
    /\ pc = "loop"
    /\ idx <= Len(raw_rows)
    /\ LET raw == raw_rows[idx]
           record_id == Strip(raw.id_solicitud)
           normalized == normalize(raw)
       IN  /\ ~normalized.ok
           /\ invalid' = invalid + 1
           /\ failures_by_rule' = DictAppend(failures_by_rule, "NORMALIZATION_ERROR", record_id)
           /\ rejected_out' = Append(rejected_out,
                                     NormalizationErrorRow(record_id, normalized.err))
           /\ disk' = Emit(disk, AuditEvent("WARN", "normalize", "record_rejected",
                                            "Normalization failed",
                                            [record_id |-> record_id,
                                             rule_ids |-> <<"NORMALIZATION_ERROR">>]))
    /\ idx' = idx + 1
    /\ UNCHANGED <<fn, rates, pc, args, manifest, raw_rows, valid, clean_out, gate, rc>>

\* lines 293-310
RecordAccepted ==
    /\ pc = "loop"
    /\ idx <= Len(raw_rows)
    /\ LET raw == raw_rows[idx]
           normalized == normalize(raw)
       IN  /\ normalized.ok
           /\ validate(normalized.v, BaselineRules).decision = "ACCEPT"
           /\ valid' = valid + 1
           /\ clean_out' = Append(clean_out, CleanRow(normalized.v))
    /\ idx' = idx + 1
    /\ UNCHANGED <<fn, rates, pc, args, manifest, disk, raw_rows, invalid, rejected_out,
                   failures_by_rule, gate, rc>>

\* variant of RecordRejected: the rejected row is put in front of the list
RecordRejected_Prepends ==
    /\ pc = "loop"
    /\ idx <= Len(raw_rows)
    /\ LET raw == raw_rows[idx]
           record_id == Strip(raw.id_solicitud)
           normalized == normalize(raw)
       IN  /\ normalized.ok
           /\ LET result == validate(normalized.v, BaselineRules) IN
               /\ result.decision # "ACCEPT"
               /\ invalid' = invalid + 1
               /\ failures_by_rule' =
                      AppendFailures(failures_by_rule, result.failures, 1, record_id)
               /\ rejected_out' = <<RejectedRow(normalized.v, result.failures)>>
                                      \o rejected_out
               /\ disk' = Emit(disk, AuditEvent("WARN", "validate", "record_rejected",
                                                "Eligibility rule failed",
                                                [record_id |-> record_id,
                                                 rule_ids |-> RuleIdsOf(result.failures)]))
    /\ idx' = idx + 1
    /\ UNCHANGED <<fn, rates, pc, args, manifest, raw_rows, valid, clean_out, gate, rc>>

\* lines 311-342
RecordRejected ==
    /\ pc = "loop"
    /\ idx <= Len(raw_rows)
    /\ LET raw == raw_rows[idx]
           record_id == Strip(raw.id_solicitud)
           normalized == normalize(raw)
       IN  /\ normalized.ok
           /\ LET result == validate(normalized.v, BaselineRules) IN
               /\ result.decision # "ACCEPT"
               /\ invalid' = invalid + 1
               /\ failures_by_rule' =
                      AppendFailures(failures_by_rule, result.failures, 1, record_id)
               /\ rejected_out' = Append(rejected_out,
                                         RejectedRow(normalized.v, result.failures))
               /\ disk' = Emit(disk, AuditEvent("WARN", "validate", "record_rejected",
                                                "Eligibility rule failed",
                                                [record_id |-> record_id,
                                                 rule_ids |-> RuleIdsOf(result.failures)]))
    /\ idx' = idx + 1
    /\ UNCHANGED <<fn, rates, pc, args, manifest, raw_rows, valid, clean_out, gate, rc>>

\* lines 344-353
ProcessingCompleted ==
    /\ pc = "loop"
    /\ idx > Len(raw_rows)
    /\ disk' = Emit(disk, AuditEvent("INFO", "process", "processing_completed",
                                     "Processing completed",
                                     [total |-> Len(raw_rows), valid |-> valid,
                                      invalid |-> invalid]))
    /\ pc' = "write_normalized"
    /\ UNCHANGED <<fn, rates, args, manifest, raw_rows, idx, valid, invalid, clean_out,
                   rejected_out, failures_by_rule, gate, rc>>

(***************************************************************************)
(* Outputs (lines 360-382).  An exception that write_clean_csv raises is   *)
(* caught nowhere: main ends there without returning (pc = "crashed").     *)
(***************************************************************************)
WriteNormalized ==
    /\ pc = "write_normalized"
    /\ LET w == write_clean_csv(clean_out) IN
        /\ disk' = [disk EXCEPT !.normalized_requests = Some(w.file)]
        /\ pc' = IF w.raised THEN "crashed" ELSE "write_rejected"
    /\ UNCHANGED <<fn, rates, args, manifest, raw_rows, idx, valid, invalid, clean_out,
                   rejected_out, failures_by_rule, gate, rc>>

WriteRejected ==
    /\ pc = "write_rejected"
    /\ LET w == write_clean_csv(rejected_out) IN
        /\ disk' = [disk EXCEPT !.rejected_requests = Some(w.file)]
        /\ pc' = IF w.raised THEN "crashed" ELSE "write_quality"
    /\ UNCHANGED <<fn, rates, args, manifest, raw_rows, idx, valid, invalid, clean_out,
                   rejected_out, failures_by_rule, gate, rc>>

\* lines 363-382
WriteQuality ==
    /\ pc = "write_quality"
    /\ LET quality_report == build_quality_report(Len(raw_rows), valid, invalid,
                                                   failures_by_rule)
       IN  disk' = Emit([disk EXCEPT !.data_quality_report =
                                         Some(write_quality_report(quality_report))],
                        AuditEvent("INFO", "output", "artifacts_written",
                                   "Artifacts generated", [rows |-> Len(raw_rows)]))
    /\ pc' = "gate"
    /\ UNCHANGED <<fn, rates, args, manifest, raw_rows, idx, valid, invalid, clean_out,
                   rejected_out, failures_by_rule, gate, rc>>

(***************************************************************************)
(* Governance, integrity, finalization (lines 387-462)                     *)
(***************************************************************************)
\* variant of RunRate: an empty input gets the rate 1.0
RunRate_DefaultOne(count, total_records) ==
    IF total_records <= 0 THEN Rate(1, 1) ELSE Rate(count, total_records)

\* lines 388-389
RunRate(count, total_records) ==
    IF total_records <= 0 THEN Rate(0, 1) ELSE Rate(count, total_records)

\* lines 387-425
EvaluateGate ==
    /\ pc = "gate"
    /\ LET total_records == Len(raw_rows)
           acceptance_rate == RunRate(valid, total_records)
           rejection_rate == RunRate(invalid, total_records)
           policy == QualityGatePolicy
           g == evaluate_quality_gate(acceptance_rate, rejection_rate, policy)
       IN  /\ rates' = Some([acceptance_rate |-> acceptance_rate,
                             rejection_rate |-> rejection_rate])
           /\ gate' = Some(g)
           /\ manifest' = [manifest EXCEPT
                  !.counts = Some([total |-> total_records, valid |-> valid,
                                   invalid |-> invalid]),
                  !.quality_gate = [policy |-> Some(PolicyPayload(policy)),
                                    decision |-> Some(g.decision),
                                    rationale |-> Some(g.rationale),
                                    metrics_snapshot |-> Some(g.metrics_snapshot)]]
           /\ disk' = Emit(disk, AuditEvent("INFO", "governance", "quality_gate_evaluated",
                                            "Quality gate evaluated",
                                            [decision |-> g.decision,
                                             acceptance_rate |-> _round4(acceptance_rate),
                                             rejection_rate |-> _round4(rejection_rate)]))
    /\ pc' = "integrity"
    /\ UNCHANGED <<fn, args, raw_rows, idx, valid, invalid, clean_out, rejected_out,
                   failures_by_rule, rc>>

\* _sha256_or_none(run_dir / rel)
FileDigest(d, name) ==
    IF name = "decision_log"
    THEN IF d.decision_log = <<>> THEN None ELSE Some(Sha256(d.decision_log))
    ELSE IF IsNone(d[name]) THEN None ELSE Some(Sha256(TheVal(d[name])))

\* lines 430-439
ComputeIntegrity ==
    /\ pc = "integrity"
    /\ manifest' = [manifest EXCEPT !.artifacts_integrity =
                       [name \in Range(ArtifactNames) |->
                           [path |-> name, sha256 |-> FileDigest(disk, name)]]]
    /\ pc' = "finalize"
    /\ UNCHANGED <<fn, rates, args, disk, raw_rows, idx, valid, invalid, clean_out,
                   rejected_out, failures_by_rule, gate, rc>>

\* lines 444-447
Finalize ==
    /\ pc = "finalize"
    /\ manifest' = [manifest EXCEPT !.status =
                       IF TheVal(gate).decision = "PASS" THEN "SUCCESS"
                       ELSE "COMPLETED_WITH_WARNINGS"]
    /\ disk' = WriteManifest(disk, manifest')
    /\ pc' = "finish"
    /\ UNCHANGED <<fn, rates, args, raw_rows, idx, valid, invalid, clean_out, rejected_out,
                   failures_by_rule, gate, rc>>

\* lines 449-462
Finish ==
    /\ pc = "finish"
    /\ disk' = Emit(disk, AuditEvent("INFO", "workflow", "run_finished",
                                     "Workflow execution finished",
                                     [status |-> manifest.status]))
    /\ rc' = Some(0)
    /\ pc' = "done"
    /\ UNCHANGED <<fn, rates, args, manifest, raw_rows, idx, valid, invalid, clean_out,
                   rejected_out, failures_by_rule, gate>>

Next ==
    \/ Start
    \/ IngestOk
    \/ IngestFail
    \/ SelectRules
    \/ RecordNormalizationError
    \/ RecordAccepted
    \/ RecordRejected
    \/ ProcessingCompleted
    \/ WriteNormalized
    \/ WriteRejected
    \/ WriteQuality
    \/ EvaluateGate
    \/ ComputeIntegrity
    \/ Finalize
    \/ Finish

Spec == Init /\ [][Next]_vars

(***************************************************************************)
(* The counting of the run, for long inputs.  The loop of main is followed *)
(* with the outcome of each record left open (accepted, or counted         *)
(* invalid by either except branch or reject branch); what the records are *)
(* is not modelled, so raw_rows stays empty and len(raw_rows) is the       *)
(* number of iterations made, idx - 1.                                     *)
(***************************************************************************)
CountInit ==
    /\ pc = "loop"
    /\ args = [format |-> "json",
               file |-> [exists |-> TRUE, suffix |-> ".json",
                         content |-> Json(TRUE, "list", <<>>)]]
    /\ manifest = MANIFEST_BASE(args.file, args.format)
    /\ disk = EmptyDisk
    /\ raw_rows = <<>>
    /\ idx = 1
    /\ valid = 0
    /\ invalid = 0
    /\ clean_out = <<>>
    /\ rejected_out = <<>>
    /\ failures_by_rule = EmptyDict
    /\ rates = None
    /\ gate = None
    /\ rc = None
    /\ fn = NoCall

\* lines 295-296
CountAccepted ==
    /\ pc = "loop"
    /\ idx <= MaxTotal
    /\ valid' = valid + 1
    /\ idx' = idx + 1
    /\ UNCHANGED <<pc, args, manifest, disk, raw_rows, invalid, clean_out,
                   rejected_out, failures_by_rule, rates, gate, rc, fn>>

\* lines 272-273 and 311-312
CountInvalid ==
    /\ pc = "loop"
    /\ idx <= MaxTotal
    /\ invalid' = invalid + 1
    /\ idx' = idx + 1
    /\ UNCHANGED <<pc, args, manifest, disk, raw_rows, valid, clean_out,
                   rejected_out, failures_by_rule, rates, gate, rc, fn>>

\* lines 363-370 and 387-413: the report and the gate, on the counts
CountReport ==
    /\ pc = "loop"
    /\ LET total_records == idx - 1
           acceptance_rate == RunRate(valid, total_records)
           rejection_rate == RunRate(invalid, total_records)
           policy == QualityGatePolicy
           g == evaluate_quality_gate(acceptance_rate, rejection_rate, policy)
           quality_report == build_quality_report(total_records, valid, invalid, EmptyDict)
       IN  /\ disk' = [disk EXCEPT !.data_quality_report =
                                       Some(write_quality_report(quality_report))]
           /\ rates' = Some([acceptance_rate |-> acceptance_rate,
                             rejection_rate |-> rejection_rate])
           /\ gate' = Some(g)
           /\ manifest' = [manifest EXCEPT
                  !.counts = Some([total |-> total_records, valid |-> valid,
                                   invalid |-> invalid]),
                  !.quality_gate = [policy |-> Some(PolicyPayload(policy)),
                                    decision |-> Some(g.decision),
                                    rationale |-> Some(g.rationale),
                                    metrics_snapshot |-> Some(g.metrics_snapshot)]]
    /\ pc' = "integrity"
    /\ UNCHANGED <<args, raw_rows, idx, valid, invalid, clean_out, rejected_out,
                   failures_by_rule, rc, fn>>

CountNext ==
    \/ CountAccepted
    \/ CountInvalid
    \/ CountReport

SpecCount == CountInit /\ [][CountNext]_vars

(***************************************************************************)
(* The counting of long runs: the state main is in after the loop has      *)
(* counted total records, the number of invalid ones near 40% of the       *)
(* total; then the report and the gate as above.                           *)
(***************************************************************************)
LongCounts ==
    {c \in [total : LongTotalMin..LongTotalMax, invalid : 0..LongTotalMax] :
        /\ c.invalid <= c.total
        /\ 5 * c.invalid >= 2 * c.total - 5 * LongSpread
        /\ 5 * c.invalid <= 2 * c.total + 5 * LongSpread}

LongInit ==
    /\ pc = "loop"
    /\ args = [format |-> "json",
               file |-> [exists |-> TRUE, suffix |-> ".json",
                         content |-> Json(TRUE, "list", <<>>)]]
    /\ manifest = MANIFEST_BASE(args.file, args.format)
    /\ disk = EmptyDisk
    /\ raw_rows = <<>>
    /\ \E c \in LongCounts :
          /\ idx = c.total + 1
          /\ valid = c.total - c.invalid
          /\ invalid = c.invalid
    /\ clean_out = <<>>
    /\ rejected_out = <<>>
    /\ failures_by_rule = EmptyDict
    /\ rates = None
    /\ gate = None
    /\ rc = None
    /\ fn = NoCall

LongNext == CountReport

SpecLong == LongInit /\ [][LongNext]_vars

(***************************************************************************)
(* Function specifications: the inputs of one call are drawn in the        *)
(* initial state and an action applies the function.  The run does not     *)
(* move.                                                                   *)
(***************************************************************************)
MainIdle ==
    /\ pc = "idle"
    /\ args = [format |-> "json",
               file |-> [exists |-> TRUE, suffix |-> ".json",
                         content |-> Json(TRUE, "list", <<>>)]]
    /\ manifest = MANIFEST_BASE(args.file, args.format)
    /\ disk = EmptyDisk
    /\ raw_rows = <<>>
    /\ idx = 1
    /\ valid = 0
    /\ invalid = 0
    /\ clean_out = <<>>
    /\ rejected_out = <<>>
    /\ failures_by_rule = EmptyDict
    /\ rates = None
    /\ gate = None
    /\ rc = None

\* --- evaluate_quality_gate ---------------------------------------------
\* largest denominator of the rates given to the gate
GateDen == 5

GateRates ==
    {Rate(p[1], p[2]) : p \in {q \in (0..GateDen) \X (1..GateDen) : q[1] <= q[2]}}

GateThresholds == {Rate(10, 100), Rate(40, 100), Rate(1, 2)}

GatePolicies ==
    {QualityGatePolicy} \cup
    {[policy_id |-> "quality_gate.custom", max_rejection_rate |-> mx,
      min_acceptance_rate |-> mn] : mx \in GateThresholds, mn \in GateThresholds}

GateInit ==
    /\ MainIdle
    /\ fn \in {[name |-> "evaluate_quality_gate",
                acceptance_rate |-> a, rejection_rate |-> r, policy |-> p,
                prev |-> None, out |-> None] :
                  a \in GateRates, r \in GateRates, p \in GatePolicies}

GateCall ==
    /\ fn.name = "evaluate_quality_gate"
    /\ IsNone(fn.out)
    /\ fn' = [fn EXCEPT !.out = Some(evaluate_quality_gate(fn.acceptance_rate,
                                                           fn.rejection_rate, fn.policy))]
    /\ UNCHANGED mainvars

\* a second call with the same acceptance rate and policy and a rejection
\* rate that is not smaller; prev keeps the first call
GateCallHigher ==
    /\ fn.name = "evaluate_quality_gate"
    /\ IsSome(fn.out)
    /\ IsNone(fn.prev)
    /\ \E y \in GateRates :
        /\ ~RateLt(y, fn.rejection_rate)
        /\ fn' = [fn EXCEPT
                    !.prev = Some([rejection_rate |-> fn.rejection_rate,
                                   out |-> TheVal(fn.out)]),
                    !.rejection_rate = y,
                    !.out = Some(evaluate_quality_gate(fn.acceptance_rate, y, fn.policy))]
    /\ UNCHANGED mainvars

GateNext ==
    \/ GateCall
    \/ GateCallHigher

SpecGate == GateInit /\ [][GateNext]_vars

\* --- validate -------------------------------------------------------------
\* what a record given to validate changes in GoodRaw: the variants of the
\* run, the bounds of the amount range and their neighbours, the other
\* allowed currencies, and each required field left empty
ValidateVariants ==
    RawVariants \cup
    {[field |-> "monto_o_limite", value |-> "1"],
     [field |-> "monto_o_limite", value |-> "1000000"],
     [field |-> "monto_o_limite", value |-> "1000001"],
     [field |-> "monto_o_limite", value |-> "inf"],
     [field |-> "monto_o_limite", value |-> "-inf"],
     [field |-> "moneda", value |-> "USD"],
     [field |-> "moneda", value |-> "EUR"],
     [field |-> "id_solicitud", value |-> " "],
     [field |-> "id_cliente", value |-> ""],
     [field |-> "tipo_producto", value |-> ""],
     [field |-> "pais", value |-> " "]}

\* GoodRaw(i) with two variants applied
RawOf2(i, v1, v2) ==
    [k \in RawFields |-> IF k = v2.field THEN v2.value ELSE RawOf(i, v1)[k]]

NormalizedPool ==
    {normalize(raw).v :
        raw \in {x \in {RawOf2(1, v1, v2) : v1 \in ValidateVariants, v2 \in ValidateVariants} :
                    normalize(x).ok}}

RuleLists == UNION {[1..k -> Range(BaselineRules)] : k \in 0..MaxRules}

ValidateInit ==
    /\ MainIdle
    /\ fn \in {[name |-> "validate", r |-> r, rules |-> rules, out |-> None] :
                  r \in NormalizedPool, rules \in RuleLists}

ValidateCall ==
    /\ fn.name = "validate"
    /\ IsNone(fn.out)
    /\ fn' = [fn EXCEPT !.out = Some(validate(fn.r, fn.rules))]
    /\ UNCHANGED mainvars

ValidateNext == ValidateCall

SpecValidate == ValidateInit /\ [][ValidateNext]_vars

\* --- read_json ------------------------------------------------------------
\* the i-th element of a JSON list: a well-formed object, one with a value
\* the parsers reject, one with null values, one with a key more, one
\* lacking a required column, and an element that is not an object
JsonItems(i) ==
    {Mapping(GoodRaw(i)),
     Mapping(RawOf(i, [field |-> "fecha_solicitud", value |-> "2026/02/10"])),
     [object |-> TRUE, keys |-> RawFields, nulls |-> {"id_cliente", "moneda"},
      vals |-> GoodRaw(i)],
     [object |-> TRUE, keys |-> RawFields \cup {"comment"}, nulls |-> {},
      vals |-> GoodRaw(i)],
     [object |-> TRUE, keys |-> RawFields \ {"pais"}, nulls |-> {}, vals |-> GoodRaw(i)],
     [object |-> FALSE, keys |-> {}, nulls |-> {}, vals |-> GoodRaw(i)]}

JsonItemSeqs(n) ==
    UNION {{its \in [1..k -> UNION {JsonItems(i) : i \in 1..k}] :
               \A i \in 1..k : its[i] \in JsonItems(i)} : k \in 0..n}

JsonFiles ==
    {[exists |-> TRUE, suffix |-> ".json", content |-> Json(TRUE, root, items)] :
        root \in {"list", "wrapper"}, items \in JsonItemSeqs(MaxRecords)}
    \cup
    {[exists |-> e, suffix |-> ".json", content |-> Json(w, root, <<>>)] :
        e \in BOOLEAN, w \in BOOLEAN,
        root \in {"list", "scalar", "object", "wrapper_other"}}

ReadJsonInit ==
    /\ MainIdle
    /\ fn \in {[name |-> "read_json", file |-> f, out |-> None] : f \in JsonFiles}

ReadJsonCall ==
    /\ fn.name = "read_json"
    /\ IsNone(fn.out)
    /\ fn' = [fn EXCEPT !.out = Some(read_json(fn.file))]
    /\ UNCHANGED mainvars

ReadJsonNext == ReadJsonCall

SpecReadJson == ReadJsonInit /\ [][ReadJsonNext]_vars

\* --- read_cobol_fixed_width -----------------------------------------------
\* the lines of a fixed-width file: the empty line, a line of blanks, the
\* lines of well-formed records, the line of a record with amount 0, and a
\* line cut after the client id
FixedLines ==
    {"", BlankLine,
     DataLine(GoodRaw(1)),
     DataLine(RawOf(2, [field |-> "moneda", value |-> "EUR"])),
     DataLine(RawOf(3, [field |-> "monto_o_limite", value |-> "0"])),
     SubSeq(DataLine(GoodRaw(4)), 1, 40)}

FixedFiles ==
    {[exists |-> e, suffix |-> ".dat", content |-> Fixed(lines)] :
        e \in BOOLEAN, lines \in UNION {[1..k -> FixedLines] : k \in 0..MaxRecords}}

ReadFixedInit ==
    /\ MainIdle
    /\ fn \in {[name |-> "read_cobol_fixed_width", file |-> f, out |-> None] :
                  f \in FixedFiles}

ReadFixedCall ==
    /\ fn.name = "read_cobol_fixed_width"
    /\ IsNone(fn.out)
    /\ fn' = [fn EXCEPT !.out = Some(read_cobol_fixed_width(fn.file))]
    /\ UNCHANGED mainvars

ReadFixedNext == ReadFixedCall

SpecReadFixed == ReadFixedInit /\ [][ReadFixedNext]_vars

\* --- normalize ------------------------------------------------------------
\* the amount strings given to normalize: numbers, the empty and the blank
\* string, text, and the spellings of NaN and of the infinities
FiniteAmountStrings == {"0", "1", "1000", "1000000", "1000001"}
NonFiniteAmountStrings ==
    {"", " ", "abc", "nan", "NaN", "inf", " inf ", "-inf", "infinity", "Infinity"}
AmountStrings == FiniteAmountStrings \cup NonFiniteAmountStrings

\* the risk score strings given to normalize: every score of the model, a
\* padded one, the empty string and text
RiskStrings == ScoreStrings \cup {" 34 ", "", "abc"}

NormalizePool ==
    {[GoodRaw(1) EXCEPT !.monto_o_limite = a, !.risk_score = k] :
        a \in AmountStrings, k \in RiskStrings}

NormalizeInit ==
    /\ MainIdle
    /\ fn \in {[name |-> "normalize", raw |-> raw, out |-> None] : raw \in NormalizePool}

NormalizeCall ==
    /\ fn.name = "normalize"
    /\ IsNone(fn.out)
    /\ fn' = [fn EXCEPT !.out = Some(normalize(fn.raw))]
    /\ UNCHANGED mainvars

NormalizeNext == NormalizeCall

SpecNormalize == NormalizeInit /\ [][NormalizeNext]_vars

(***************************************************************************)
(* Properties                                                              *)
(***************************************************************************)
IngestResult == read_requests(args.file, args.format)
MainEnded == pc \in {"done", "crashed"}
MainReturned == pc = "done"
DiskManifest == TheVal(disk.run_manifest)
DiskReport == TheVal(disk.data_quality_report)
FileRows(o) == IF IsSome(o) THEN TheVal(o).rows ELSE <<>>
Abs(x) == IF x < 0 THEN 0 - x ELSE x

\* C1: whenever ingestion succeeds, whatever the records are, main ends by
\* returning 0 after the whole list was processed, with both tabular
\* artifacts and the quality report written and the manifest on disk in
\* status SUCCESS or COMPLETED_WITH_WARNINGS (never left RUNNING).
C1_RecordErrorsNeverAbortTheRun ==
    (MainEnded /\ IngestResult.ok) =>
        /\ rc = Some(0)
        /\ idx = Len(raw_rows) + 1
        /\ IsSome(disk.normalized_requests)
        /\ IsSome(disk.rejected_requests)
        /\ IsSome(disk.data_quality_report)
        /\ DiskManifest.status \in {"SUCCESS", "COMPLETED_WITH_WARNINGS"}

\* C2: after every iteration of the loop valid + invalid is the number of
\* records processed so far, and when the run completes the counts in the
\* manifest and in the quality report satisfy valid + invalid = total, with
\* total the number of records the Reader returned.
C2_Totals ==
    /\ pc \notin {"start", "ingest", "rules", "idle"} =>
           /\ valid + invalid = idx - 1
           /\ idx - 1 <= Len(raw_rows)
    /\ (MainReturned /\ rc = Some(0)) =>
           LET c == TheVal(DiskManifest.counts)
               t == DiskReport.totals
           IN  /\ c.valid + c.invalid = c.total
               /\ c.total = Len(IngestResult.v)
               /\ t.valid + t.invalid = t.total
               /\ t.total = Len(IngestResult.v)
               /\ c.valid = valid /\ c.invalid = invalid
               /\ t.valid = valid /\ t.invalid = invalid

\* a completed run that accepted a record and rejected records of both kinds
C2_Witness ==
    /\ MainReturned /\ rc = Some(0)
    /\ valid >= 1
    /\ invalid >= 2
    /\ "NORMALIZATION_ERROR" \in DOMAIN failures_by_rule
    /\ "AMOUNT_RANGE" \in DOMAIN failures_by_rule

\* what the claim expects of one raw record
ExpectedAccepted(raw) ==
    /\ normalize(raw).ok
    /\ \A i \in 1..Len(BaselineRules) : IsNone(Check(BaselineRules[i], normalize(raw).v))

ExpectedRuleIds(raw) ==
    IF ~normalize(raw).ok THEN "NORMALIZATION_ERROR"
    ELSE Join(RuleIdsOf(SelectSeq(BaselineRules,
                                  LAMBDA rule : IsSome(Check(rule, normalize(raw).v)))), "|")

RowsWithId(rows, id) == {j \in 1..Len(rows) : rows[j].id_solicitud = id}

\* C3: when main has ended after a successful ingestion, every raw record is
\* exactly one row of exactly one artifact: a row of normalized_requests iff
\* it was accepted, otherwise a row of rejected_requests whose
\* reject_rule_ids is NORMALIZATION_ERROR or the pipe-joined ids of the
\* failing rules in rule order; the artifacts hold valid and invalid rows.
C3_OneInterpretationPerRecord ==
    (MainEnded /\ IngestResult.ok) =>
        LET norm == FileRows(disk.normalized_requests)
            rej == FileRows(disk.rejected_requests)
        IN  /\ Len(norm) = valid
            /\ Len(rej) = invalid
            /\ \A i \in 1..Len(raw_rows) :
                  LET id == Strip(raw_rows[i].id_solicitud)
                      inNorm == RowsWithId(norm, id)
                      inRej == RowsWithId(rej, id)
                  IN  /\ Cardinality(inNorm) + Cardinality(inRej) = 1
                      /\ (Cardinality(inNorm) = 1) <=> ExpectedAccepted(raw_rows[i])
                      /\ \A j \in inRej :
                            rej[j].reject_rule_ids = ExpectedRuleIds(raw_rows[i])

DeclaredOutputs == {"decision_log", "normalized_requests", "rejected_requests",
                    "data_quality_report"}

\* C4: when a run has completed, the sha256 recorded for every declared
\* output artifact is the digest of the bytes the artifact has once the run
\* has ended.
C4_HashesAreOfFinalBytes ==
    (MainReturned /\ rc = Some(0)) =>
        \A name \in DeclaredOutputs :
            DiskManifest.artifacts_integrity[name].sha256 = FileDigest(disk, name)

TerminalStatuses == {"SUCCESS", "COMPLETED_WITH_WARNINGS", "FAILED"}

C5_StatusNow ==
    /\ manifest.status \in {"RUNNING"} \cup TerminalStatuses
    /\ manifest.status = "SUCCESS" =>
           IsSome(gate) /\ TheVal(gate).decision = "PASS"
    /\ manifest.status = "COMPLETED_WITH_WARNINGS" =>
           IsSome(gate) /\ TheVal(gate).decision = "WARN"
    /\ manifest.status = "FAILED" => ~IngestResult.ok
    /\ MainEnded =>
           /\ manifest.status \in TerminalStatuses
           /\ DiskManifest.status = manifest.status
           /\ IngestResult.ok => TheVal(gate).decision \in {"PASS", "WARN"}
           /\ manifest.status \in {"SUCCESS", "COMPLETED_WITH_WARNINGS"} => rc = Some(0)
           /\ manifest.status = "FAILED" => rc = Some(2)

C5_StatusStep ==
    /\ manifest.status # "RUNNING" => manifest'.status = manifest.status
    /\ manifest'.status # manifest.status => manifest'.status \in TerminalStatuses

\* C5: the manifest status is RUNNING from creation, changes exactly once,
\* to SUCCESS iff the gate says PASS, to COMPLETED_WITH_WARNINGS iff it says
\* WARN, to FAILED iff ingestion aborted, and never changes afterwards; main
\* returns 0 in the first two cases and 2 in the third.
C5_StatusLifecycle == [](C5_StatusNow) /\ [][C5_StatusStep]_vars

\* C6: when the Reader fails, no record is ever normalized or validated and
\* no tabular artifact or quality report is written; main ends by returning
\* 2 with the manifest rewritten with status FAILED and the error message,
\* counts unset, rule list and artifact hashes empty.
C6_IngestionFailureAborts ==
    ~IngestResult.ok =>
        /\ pc \in {"start", "ingest", "done"}
        /\ idx = 1 /\ valid = 0 /\ invalid = 0
        /\ clean_out = <<>> /\ rejected_out = <<>>
        /\ failures_by_rule = EmptyDict
        /\ IsNone(disk.normalized_requests)
        /\ IsNone(disk.rejected_requests)
        /\ IsNone(disk.data_quality_report)
        /\ MainEnded =>
               /\ rc = Some(2)
               /\ DiskManifest.status = "FAILED"
               /\ DiskManifest.error = Some(IngestResult.err)
               /\ IsNone(DiskManifest.counts)
               /\ DiskManifest.rules = <<>>
               /\ DiskManifest.artifacts_integrity = EmptyDict
               /\ disk.decision_log[Len(disk.decision_log)].event = "input_invalid"

\* a run aborted because a JSON element lacks a required column
C6_Witness ==
    /\ MainReturned
    /\ rc = Some(2)
    /\ ~IngestResult.ok
    /\ IngestResult.err.text = "Input missing required columns"
    /\ args.file.content.kind = "json"

GateCalled == fn.name = "evaluate_quality_gate" /\ IsSome(fn.out)
RateEq(a, b) == a.n * b.d = b.n * a.d

\* k/10000 is a nearest multiple of 1/10000 to the rate x
NearestUnit(k, x) == 2 * Abs(k * x.d - x.n * RateScale) <= x.d

\* C7: evaluate_quality_gate returns WARN with the rejection rationale when
\* rejection_rate > max_rejection_rate, otherwise WARN with the acceptance
\* rationale when acceptance_rate < min_acceptance_rate, otherwise PASS; the
\* comparisons are strict, and in all three branches the decision carries
\* the policy's policy_id and both rates, rounded, in its metrics snapshot.
C7_GateRules ==
    GateCalled =>
        LET a == fn.acceptance_rate
            r == fn.rejection_rate
            p == fn.policy
            o == TheVal(fn.out)
            above == r.n * p.max_rejection_rate.d > p.max_rejection_rate.n * r.d
            below == a.n * p.min_acceptance_rate.d < p.min_acceptance_rate.n * a.d
        IN  /\ o.decision = (IF above \/ below THEN "WARN" ELSE "PASS")
            /\ o.rationale.text =
                   (IF above THEN "Rejection rate above threshold"
                    ELSE IF below THEN "Acceptance rate below minimum"
                    ELSE "Quality gate passed")
            /\ above => /\ NearestUnit(o.rationale.value, r)
                        /\ NearestUnit(o.rationale.threshold, p.max_rejection_rate)
            /\ (~above /\ below) =>
                   /\ NearestUnit(o.rationale.value, a)
                   /\ NearestUnit(o.rationale.threshold, p.min_acceptance_rate)
            /\ o.policy_id = p.policy_id
            /\ DOMAIN o.metrics_snapshot = {"acceptance_rate", "rejection_rate"}
            /\ NearestUnit(o.metrics_snapshot.acceptance_rate, a)
            /\ NearestUnit(o.metrics_snapshot.rejection_rate, r)

\* both rates sit exactly on their thresholds and the gate passes
C7_Witness ==
    /\ GateCalled
    /\ RateEq(fn.rejection_rate, fn.policy.max_rejection_rate)
    /\ RateEq(fn.acceptance_rate, fn.policy.min_acceptance_rate)
    /\ TheVal(fn.out).decision = "PASS"

\* C8: with the policy and the acceptance rate fixed, a WARN at rejection
\* rate x is a WARN at every rejection rate y >= x, and raising the
\* rejection rate from at or below max_rejection_rate to above it gives
\* WARN (never WARN turned into PASS).
C8_GateMonotone ==
    (GateCalled /\ IsSome(fn.prev)) =>
        LET x == TheVal(fn.prev).rejection_rate
            y == fn.rejection_rate
            before == TheVal(fn.prev).out.decision
            after == TheVal(fn.out).decision
            mx == fn.policy.max_rejection_rate
        IN  /\ x.n * y.d <= y.n * x.d
            /\ before = "WARN" => after = "WARN"
            /\ (x.n * mx.d <= mx.n * x.d /\ y.n * mx.d > mx.n * y.d) => after = "WARN"

\* a PASS at a rejection rate on the threshold becomes WARN above it
C8_Witness ==
    /\ GateCalled
    /\ IsSome(fn.prev)
    /\ RateEq(TheVal(fn.prev).rejection_rate, fn.policy.max_rejection_rate)
    /\ RateGt(fn.rejection_rate, fn.policy.max_rejection_rate)
    /\ TheVal(fn.prev).out.decision = "PASS"
    /\ TheVal(fn.out).decision = "WARN"

RatesComputed == IsSome(rates) /\ IsSome(disk.data_quality_report)

C9_UnroundedRates ==
    LET a == TheVal(rates).acceptance_rate
        r == TheVal(rates).rejection_rate
        total == TheVal(manifest.counts).total
    IN  /\ a.d > 0 /\ r.d > 0
        /\ 0 <= a.n /\ a.n <= a.d
        /\ 0 <= r.n /\ r.n <= r.d
        /\ total > 0 => a.n * r.d + r.n * a.d = a.d * r.d
        /\ total = 0 => a.n = 0 /\ r.n = 0
        /\ total > 0 => RateEq(a, Rate(valid, total)) /\ RateEq(r, Rate(invalid, total))

C9_WrittenRatesInRange ==
    LET t == DiskReport.totals
        m == DiskReport.quality_gate.metrics_snapshot
    IN  /\ t.acceptance_rate \in 0..RateScale
        /\ t.rejection_rate \in 0..RateScale
        /\ m.acceptance_rate = t.acceptance_rate
        /\ m.rejection_rate = t.rejection_rate
        /\ TheVal(gate).metrics_snapshot = m
        /\ t.total = 0 => t.acceptance_rate = 0 /\ t.rejection_rate = 0

\* C9 as stated: the rates passed to the gate and the rates written to the
\* quality report are within [0, 1], sum to 1 whenever total > 0, and are
\* both 0 when total = 0, with no division by zero.
C9_RatesSumToOne ==
    RatesComputed =>
        /\ C9_UnroundedRates
        /\ C9_WrittenRatesInRange
        /\ DiskReport.totals.total > 0 =>
               DiskReport.totals.acceptance_rate + DiskReport.totals.rejection_rate
                   = RateScale

\* C9 amended: the rates passed to the gate are within [0, 1], sum to 1
\* whenever total > 0 and are both 0 when total = 0, with no division by
\* zero; the rates written to the quality report, rounded to 4 digits, are
\* within [0, 1], both 0 when total = 0, and sum to 1 up to 0.0001 when
\* total > 0.
C9_RateBounds ==
    RatesComputed =>
        /\ C9_UnroundedRates
        /\ C9_WrittenRatesInRange
        /\ DiskReport.totals.total > 0 =>
               Abs(DiskReport.totals.acceptance_rate + DiskReport.totals.rejection_rate
                   - RateScale) <= 1

\* a run whose two written rates were both rounded up
C9_Witness ==
    /\ RatesComputed
    /\ DiskReport.totals.total > 0
    /\ DiskReport.totals.valid > 0
    /\ DiskReport.totals.acceptance_rate + DiskReport.totals.rejection_rate = RateScale + 1

ValidateCalled == fn.name = "validate" /\ IsSome(fn.out)

\* C10: validate calls check on every rule of the list exactly once, in
\* list order, whether or not an earlier rule failed; the failures are the
\* rules whose check gave a reason, in list order, each with its rule's id
\* and severity; the decision is REJECT iff there is a failure, ACCEPT
\* otherwise (also for the empty rule list).
C10_ValidateRunsEveryRule ==
    ValidateCalled =>
        LET rules == fn.rules
            o == TheVal(fn.out)
            failing == SelectSeq(rules, LAMBDA rule : IsSome(Check(rule, fn.r)))
        IN  /\ o.calls = [i \in 1..Len(rules) |-> rules[i].rule_id]
            /\ Len(o.failures) = Len(failing)
            /\ \A i \in 1..Len(failing) :
                  /\ o.failures[i].rule_id = failing[i].rule_id
                  /\ o.failures[i].severity = failing[i].severity
                  /\ Some(o.failures[i].reason) = Check(failing[i], fn.r)
            /\ o.decision = "REJECT" <=> o.failures # <<>>
            /\ o.decision = "ACCEPT" <=> o.failures = <<>>
            /\ rules = <<>> => o.decision = "ACCEPT"

\* the first rule of the list fails and a later one fails too
C10_Witness ==
    /\ ValidateCalled
    /\ Len(fn.rules) = 3
    /\ IsSome(Check(fn.rules[1], fn.r))
    /\ IsNone(Check(fn.rules[2], fn.r))
    /\ IsSome(Check(fn.rules[3], fn.r))
    /\ Len(TheVal(fn.out).failures) = 2
    /\ TheVal(fn.out).decision = "REJECT"

\* what the rules are specified to require of a normalized record
RequiredPresent(r) ==
    /\ r.id_solicitud # ""
    /\ r.id_cliente # ""
    /\ r.tipo_producto # ""
    /\ r.moneda # ""
    /\ r.pais # ""

CurrencyListed(r) == r.moneda \in {"ARS", "USD", "EUR"}

\* the amount is a number of the inclusive range [1.0, 1000000.0]
AmountInRange(r) ==
    /\ ~r.monto_o_limite.nan
    /\ r.monto_o_limite.inf = 0
    /\ r.monto_o_limite.v >= 1
    /\ r.monto_o_limite.v <= 1000000

ViolatedRuleIds(r) ==
    (IF RequiredPresent(r) THEN {} ELSE {"REQUIRED_FIELDS"})
    \cup (IF CurrencyListed(r) THEN {} ELSE {"CURRENCY_ALLOWED"})
    \cup (IF AmountInRange(r) THEN {} ELSE {"AMOUNT_RANGE"})

BaselineCalled == ValidateCalled /\ fn.rules = BaselineRules

\* C11: with the baseline rule list a normalized record is accepted iff its
\* id, client id, product type, currency and country are non-empty, its
\* currency is ARS, USD or EUR and its amount lies in [1.0, 1000000.0], both
\* bounds included; otherwise it is rejected and the ids of the failure list
\* are exactly the ids of the violated rules, each once.
C11_BaselineDecision ==
    BaselineCalled =>
        LET o == TheVal(fn.out)
            ids == RuleIdsOf(o.failures)
        IN  /\ o.decision = "ACCEPT" <=> ViolatedRuleIds(fn.r) = {}
            /\ o.decision = "REJECT" <=> ViolatedRuleIds(fn.r) # {}
            /\ Range(ids) = ViolatedRuleIds(fn.r)
            /\ Len(ids) = Cardinality(ViolatedRuleIds(fn.r))

\* C11 on the records whose amount is a number (not a NaN)
C11_FiniteAmounts ==
    (BaselineCalled /\ ~fn.r.monto_o_limite.nan) => C11_BaselineDecision

\* a is a subsequence of b
RECURSIVE IsSubseq(_, _)
IsSubseq(a, b) ==
    IF a = <<>> THEN TRUE
    ELSE IF b = <<>> THEN FALSE
    ELSE IF a[1] = b[1] THEN IsSubseq(Tail(a), Tail(b))
    ELSE IsSubseq(a, Tail(b))

IdsOf(rows) == [j \in 1..Len(rows) |-> rows[j].id_solicitud]

\* the record ids of the input, as main derives them, in input order
InputIds == [i \in 1..Len(raw_rows) |-> Strip(raw_rows[i].id_solicitud)]

\* the record ids of the record_rejected events, in log order
LogRejectedIds ==
    LET evs == SelectSeq(disk.decision_log, LAMBDA e : e.event = "record_rejected")
    IN  [j \in 1..Len(evs) |-> evs[j].extra.record_id]

\* C12: the records are processed in input order: at every point of a run
\* the record ids of the record_rejected events of the log, in log order,
\* are a subsequence of the ids of the records processed so far, in input
\* order, and the ids of the rows of normalized_requests and of
\* rejected_requests, in file order, are each a subsequence of the input
\* ids.
C12_InputOrder ==
    (pc \in {"start", "ingest", "rules", "loop", "write_normalized", "write_rejected",
             "write_quality", "gate", "integrity", "finalize", "finish", "done",
             "crashed"}) =>
        /\ IsSubseq(LogRejectedIds, SubSeq(InputIds, 1, idx - 1))
        /\ IsSubseq(IdsOf(clean_out), SubSeq(InputIds, 1, idx - 1))
        /\ IsSubseq(IdsOf(rejected_out), SubSeq(InputIds, 1, idx - 1))
        /\ IsSubseq(IdsOf(FileRows(disk.normalized_requests)), InputIds)
        /\ IsSubseq(IdsOf(FileRows(disk.rejected_requests)), InputIds)
        /\ Len(LogRejectedIds) = invalid

\* a completed run of three records: the first and the third rejected, the
\* second accepted, all rows and events written
C12_Witness ==
    /\ MainReturned /\ rc = Some(0)
    /\ Len(raw_rows) = 3
    /\ IdsOf(FileRows(disk.rejected_requests)) = <<InputIds[1], InputIds[3]>>
    /\ IdsOf(FileRows(disk.normalized_requests)) = <<InputIds[2]>>
    /\ LogRejectedIds = <<InputIds[1], InputIds[3]>>

C13_Step ==
    LET old == disk.decision_log
        new == disk'.decision_log
    IN  /\ Len(new) \in {Len(old), Len(old) + 1}
        /\ SubSeq(new, 1, Len(old)) = old

\* C13: the decision log is append-only: every step of a run leaves the log
\* as it is or adds exactly one line at its end, the earlier lines
\* unchanged; so the log at an earlier point is a prefix of the log at any
\* later point and the number of lines never decreases.
C13_AppendOnly == [][C13_Step]_vars

\* a completed run whose log holds the records of two rejections between
\* run_started and run_finished
C13_Witness ==
    /\ MainReturned /\ rc = Some(0)
    /\ Len(LogRejectedIds) >= 2
    /\ disk.decision_log[1].event = "run_started"
    /\ disk.decision_log[Len(disk.decision_log)].event = "run_finished"
    /\ Len(disk.decision_log) >= 8

\* the positions of the log whose event is ev
EventPositions(ev) ==
    {j \in 1..Len(disk.decision_log) : disk.decision_log[j].event = ev}

C14_LogShape ==
    LET log == disk.decision_log
        rejections == EventPositions("record_rejected")
        evaluations == EventPositions("quality_gate_evaluated")
    IN  /\ log # <<>>
        /\ log[1].event = "run_started"
        /\ EventPositions("run_started") = {1}
        /\ log[Len(log)].event = "run_finished"
        /\ EventPositions("run_finished") = {Len(log)}
        /\ Cardinality(rejections) = invalid
        /\ IngestResult.ok =>
               /\ Cardinality(rejections) = TheVal(manifest.counts).invalid
               /\ Cardinality(evaluations) = 1
               /\ \A e \in evaluations :
                      /\ e < Len(log)
                      /\ \A j \in rejections : j < e
        /\ ~IngestResult.ok => rejections = {} /\ evaluations = {}

\* C14: when a run has ended, by completing or by aborting at ingestion, the
\* first record of its decision log is the run-start record and the last
\* one the run-end record; in between there is exactly one rejection record
\* per invalid record and, when ingestion succeeded, exactly one
\* governance-evaluation record, after all rejection records and before the
\* run-end record.
C14_LogStartsAndEnds == (MainReturned /\ rc \in {Some(0), Some(2)}) => C14_LogShape

\* C14 on the runs that return 0
C14_CompletedRuns == (MainReturned /\ rc = Some(0)) => C14_LogShape

NormalizeCalled == fn.name = "normalize" /\ IsSome(fn.out)

\* C15: for every integer risk score s, negative ones and ones above 100
\* included, normalize succeeds on a record that is otherwise well formed,
\* stores s in risk_score and sets risk_bucket to LOW when s < 34, to MED
\* when 34 <= s < 67 and to HIGH when s >= 67; the bucket is one of these
\* three values and is the bucket of the stored score.
C15_RiskBucket ==
    NormalizeCalled =>
        LET o == TheVal(fn.out)
            scored == Strip(fn.raw.risk_score) \in ScoreStrings
            parses == fn.raw.monto_o_limite \notin {"", " ", "abc"}
        IN  /\ (scored /\ parses) => o.ok
            /\ o.ok =>
                   LET s == o.v.risk_score
                       b == o.v.risk_bucket
                   IN  /\ scored
                       /\ ToString(s) = Strip(fn.raw.risk_score)
                       /\ b \in {"LOW", "MED", "HIGH"}
                       /\ b = "LOW" <=> s < 34
                       /\ b = "MED" <=> (34 <= s /\ s < 67)
                       /\ b = "HIGH" <=> s >= 67

\* the score on the lower threshold is in the bucket MED
C15_Witness ==
    /\ NormalizeCalled
    /\ TheVal(fn.out).ok
    /\ TheVal(fn.out).v.risk_score = 34
    /\ TheVal(fn.out).v.risk_bucket = "MED"

\* C16: normalize fails, with the error of the amount, for every amount
\* string that does not denote a finite number: the empty and the blank
\* string, text, and the spellings of NaN and of the infinities; so no
\* record with such an amount is normalized (and none can be accepted).
C16_NonFiniteAmountsFail ==
    (NormalizeCalled /\ fn.raw.monto_o_limite \in NonFiniteAmountStrings) =>
        /\ ~TheVal(fn.out).ok
        /\ TheVal(fn.out).err \in {"monto_o_limite is empty",
                                   "monto_o_limite is not numeric"}

\* C16 on the empty string, the blank string and text
C16_EmptyAndTextFail ==
    (NormalizeCalled /\ fn.raw.monto_o_limite \in {"", " ", "abc"}) =>
        /\ ~TheVal(fn.out).ok
        /\ TheVal(fn.out).err \in {"monto_o_limite is empty",
                                   "monto_o_limite is not numeric"}

\* in a run, no row of normalized_requests has a NaN or infinite amount
C16_NoNonFiniteAmountWritten ==
    \A j \in 1..Len(FileRows(disk.normalized_requests)) :
        FileRows(disk.normalized_requests)[j].monto_o_limite \notin {"nan", "inf", "-inf"}

ReadJsonCalled == fn.name = "read_json" /\ IsSome(fn.out)

\* the root of the file is a list of objects, or an object whose requests
\* entry is such a list, and every object has every required column
JsonAcceptable(file) ==
    /\ file.exists
    /\ file.content.wellformed
    /\ file.content.root \in {"list", "wrapper"}
    /\ \A i \in 1..Len(file.content.items) :
          /\ file.content.items[i].object
          /\ Range(REQUIRED_COLUMNS) \subseteq file.content.items[i].keys

\* C17: read_json returns a list exactly when the root is a list of objects
\* or an object whose requests entry is such a list and no element lacks a
\* required column; the list has one RawRequest per element, in order,
\* whose fields are the element's values, a null value giving the empty
\* string; in every other case it raises InputFormatError and returns
\* nothing, whatever elements came before the bad one.
C17_JsonAllOrNothing ==
    ReadJsonCalled =>
        LET o == TheVal(fn.out)
            items == fn.file.content.items
        IN  /\ o.ok <=> JsonAcceptable(fn.file)
            /\ o.ok =>
                   /\ Len(o.v) = Len(items)
                   /\ \A i \in 1..Len(items) : \A k \in RawFields :
                          o.v[i][k] = IF k \in items[i].nulls THEN ""
                                      ELSE items[i].vals[k]
            /\ ~o.ok => DOMAIN o = {"ok", "err"}

\* a list of three objects, one of them with null values, is read
C17_Witness ==
    /\ ReadJsonCalled
    /\ TheVal(fn.out).ok
    /\ Len(TheVal(fn.out).v) = 3
    /\ fn.file.content.items[2].nulls # {}
    /\ TheVal(fn.out).v[2].id_cliente = ""
    /\ TheVal(fn.out).v[3].id_solicitud = "REQ-3"

ReadFixedCalled == fn.name = "read_cobol_fixed_width" /\ IsSome(fn.out)

\* the line holds nothing but blanks
IsBlank(line) == line = Spaces(Len(line))

\* v is the string str without its leading and trailing blanks
IsTrimOf(v, str) ==
    /\ \E a \in 0..Len(str) : \E b \in 0..(Len(str) - a) :
          str = Spaces(a) \o v \o Spaces(b)
    /\ v # "" => /\ SubSeq(v, 1, 1) # " "
                 /\ SubSeq(v, Len(v), Len(v)) # " "

\* the characters at the 0-based positions start .. end - 1 of the line
LayoutChars(line, start, end) ==
    IF start >= Len(line) THEN ""
    ELSE SubSeq(line, start + 1, IF end > Len(line) THEN Len(line) ELSE end)

\* C18: read_cobol_fixed_width returns one RawRequest per non-blank line, in
\* file order, each field being the layout's [start, end) slice of the line
\* without its surrounding blanks; blank lines give no record; a file
\* without a non-blank line (or a missing file) makes it raise
\* InputFormatError instead of returning an empty list.
C18_FixedWidthRows ==
    ReadFixedCalled =>
        LET o == TheVal(fn.out)
            nonblank == SelectSeq(fn.file.content.lines, LAMBDA l : ~IsBlank(l))
        IN  /\ o.ok <=> (fn.file.exists /\ nonblank # <<>>)
            /\ o.ok =>
                   /\ Len(o.v) = Len(nonblank)
                   /\ \A i \in 1..Len(nonblank) : \A f \in Range(DEFAULT_COBOL_LAYOUT) :
                          IsTrimOf(o.v[i][f.name], LayoutChars(nonblank[i], f.start, f.end))
            /\ ~o.ok => DOMAIN o = {"ok", "err"}

\* a file of a blank line and two records is read: two rows, in file
\* order, the currency slice EUR giving the currency EUR
C18_Witness ==
    /\ ReadFixedCalled
    /\ fn.file.content.lines =
           <<BlankLine, DataLine(RawOf(2, [field |-> "moneda", value |-> "EUR"])),
             DataLine(GoodRaw(1))>>
    /\ TheVal(fn.out).ok
    /\ Len(TheVal(fn.out).v) = 2
    /\ TheVal(fn.out).v[1].moneda = "EUR"
    /\ TheVal(fn.out).v[1].id_solicitud = "REQ-2"
    /\ TheVal(fn.out).v[2].id_solicitud = "REQ-1"
    /\ TheVal(fn.out).v[2].monto_o_limite = "1000"
    /\ TheVal(fn.out).v[2].risk_score = "40"

\* the gate evaluated again on given rates (in units of 1/10000) and on the
\* thresholds of the policy embedded in the report
Replay(report, acc, rej) ==
    evaluate_quality_gate(
        Rate(acc, RateScale), Rate(rej, RateScale),
        [policy_id |-> report.quality_gate.policy.policy_id,
         max_rejection_rate |-> Rate(report.quality_gate.policy.max_rejection_rate, RateScale),
         min_acceptance_rate |-> Rate(report.quality_gate.policy.min_acceptance_rate, RateScale)])

\* C19: once the report is written and the gate evaluated, the gate rules
\* applied to the rounded rates recorded in the quality report (its totals
\* and its metrics snapshot) and to the thresholds of the policy embedded in
\* the report give the decision recorded in the report and the decision
\* recorded in the manifest.
C19_ReplayFromReport ==
    RatesComputed =>
        LET report == DiskReport
            snap == report.quality_gate.metrics_snapshot
            replayed == Replay(report, snap.acceptance_rate, snap.rejection_rate).decision
            fromTotals == Replay(report, report.totals.acceptance_rate,
                                 report.totals.rejection_rate).decision
        IN  /\ replayed = report.quality_gate.decision
            /\ fromTotals = report.quality_gate.decision
            /\ Some(replayed) = manifest.quality_gate.decision

\* the decisions of the report and of the manifest are the same, and the
\* gate rules applied to the counts of the report give that decision
C19_ReplayFromCounts ==
    RatesComputed =>
        LET report == DiskReport
            t == report.totals
            pol == QualityGatePolicy
            again == evaluate_quality_gate(_safe_rate(t.valid, t.total),
                                           _safe_rate(t.invalid, t.total), pol).decision
        IN  /\ again = report.quality_gate.decision
            /\ Some(again) = manifest.quality_gate.decision
            /\ report.quality_gate.policy = PolicyPayload(pol)

\* main is past the loop (processing completed) and has not crashed
AfterProcessing ==
    pc \in {"write_normalized", "write_rejected", "write_quality", "gate", "integrity",
            "finalize", "finish", "done"} /\ IngestResult.ok

\* main has written the artifacts
AfterArtifacts ==
    pc \in {"gate", "integrity", "finalize", "finish", "done"} /\ IngestResult.ok

\* main has evaluated the quality gate
AfterGate == pc \in {"integrity", "finalize", "finish", "done"} /\ IngestResult.ok

OnDiskCounts == IsSome(disk.run_manifest) /\ IsSome(DiskManifest.counts)
OnDiskHashes == IsSome(disk.run_manifest) /\ DiskManifest.artifacts_integrity # EmptyDict
OnDiskGate ==
    /\ IsSome(disk.run_manifest)
    /\ IsSome(DiskManifest.quality_gate.policy)
    /\ IsSome(DiskManifest.quality_gate.decision)
    /\ IsSome(DiskManifest.quality_gate.metrics_snapshot)
OnDiskTerminal ==
    IsSome(disk.run_manifest) /\ DiskManifest.status \in {"SUCCESS", "COMPLETED_WITH_WARNINGS"}

C20_Now ==
    /\ pc = "ingest" => IsSome(disk.run_manifest) /\ DiskManifest.status = "RUNNING"
    /\ pc \in {"rules", "loop"} =>
           /\ DiskManifest.status = "RUNNING"
           /\ IsSome(DiskManifest.input.sha256)
    /\ (pc = "loop" \/ AfterProcessing) => DiskManifest.rules # <<>>
    /\ AfterProcessing => OnDiskCounts
    /\ AfterArtifacts => OnDiskHashes
    /\ AfterGate => OnDiskGate
    /\ (MainReturned /\ rc = Some(0)) => OnDiskTerminal

C20_Step ==
    (~OnDiskTerminal /\ OnDiskTerminal') => (OnDiskCounts /\ OnDiskHashes)

\* C20: the manifest on disk follows the milestones of the run: it exists
\* with status RUNNING before ingestion starts, still has it after
\* ingestion, has the rule list once the rules are selected, the counts once
\* processing has completed, the integrity hashes once the artifacts are
\* written, the gate's policy, decision and metrics once the gate has run,
\* and the terminal status at the end; the counts and the hashes are on disk
\* before the terminal status is.
C20_ManifestMilestones == [](C20_Now) /\ [][C20_Step]_vars

\* what main does write: the manifest on disk is the one created until the
\* rules are selected, then that one with the rule list until finalization
\* (no counts, hashes or gate outcome), then the complete final one
C20_WritesOfMain ==
    /\ pc \in {"ingest", "rules"} => DiskManifest = MANIFEST_BASE(args.file, args.format)
    /\ pc \in {"loop", "write_normalized", "write_rejected", "write_quality", "gate",
                "integrity", "finalize", "crashed"} =>
           /\ DiskManifest.rules # <<>>
           /\ DiskManifest.status = "RUNNING"
           /\ ~OnDiskCounts /\ ~OnDiskHashes
           /\ IsNone(DiskManifest.quality_gate.decision)
    /\ pc \in {"finish", "done"} => DiskManifest = manifest
    /\ (MainReturned /\ rc = Some(0)) =>
           OnDiskCounts /\ OnDiskHashes /\ OnDiskGate /\ OnDiskTerminal

\* the record fails the rule id: NORMALIZATION_ERROR when normalize raises,
\* a baseline rule when its check of the normalized record reports a failure
FailsRuleId(raw, rule_id) ==
    IF rule_id = "NORMALIZATION_ERROR" THEN ~normalize(raw).ok
    ELSE /\ normalize(raw).ok
         /\ \E i \in 1..Len(BaselineRules) :
               /\ BaselineRules[i].rule_id = rule_id
               /\ IsSome(Check(BaselineRules[i], normalize(raw).v))

\* the ids of the input records that fail the rule id, in input order
FailedIds(rule_id) ==
    LET pos == SelectSeq([i \in 1..Len(raw_rows) |-> i],
                         LAMBDA i : FailsRuleId(raw_rows[i], rule_id))
    IN  [j \in 1..Len(pos) |-> InputIds[pos[j]]]

\* the rule ids in increasing order
SortedRuleIds ==
    <<"AMOUNT_RANGE", "CURRENCY_ALLOWED", "NORMALIZATION_ERROR", "REQUIRED_FIELDS">>

ReportWritten == pc \notin {"idle"} /\ IsSome(disk.data_quality_report)

\* the entries of the report but for the value of pass_rate
C21_Entries ==
    LET details == DiskReport.rule_details
        failing == SelectSeq(SortedRuleIds, LAMBDA k : FailedIds(k) # <<>>)
    IN  /\ [j \in 1..Len(details) |-> details[j].rule_id] = failing
        /\ \A j \in 1..Len(details) :
              LET d == details[j]
                  ids == FailedIds(d.rule_id)
                  n == IF Len(ids) < 3 THEN Len(ids) ELSE 3
              IN  /\ d.failed_count = Len(ids)
                  /\ d.failed_count >= 1
                  /\ d.failed_count <= DiskReport.totals.invalid
                  /\ d.examples = SubSeq(ids, 1, n)

\* C21 as stated: each rule id that failed at least once has one entry,
\* the entries are in rule id order, failed_count is the number of records
\* that failed the rule (a record failing several rules counted under each
\* of them) and is at most counts.invalid, the examples are the ids of the
\* first min(3, failed_count) such records in input order, and pass_rate is
\* (total - failed_count)/total.
C21_RuleDetailsExact ==
    ReportWritten =>
        /\ C21_Entries
        /\ \A j \in 1..Len(DiskReport.rule_details) :
              LET d == DiskReport.rule_details[j]
                  total == DiskReport.totals.total
              IN  d.pass_rate * total = (total - d.failed_count) * RateScale

\* C21 amended: the same, with pass_rate being (total - failed_count)/total
\* rounded to 4 digits.
C21_RuleDetails ==
    ReportWritten =>
        /\ C21_Entries
        /\ \A j \in 1..Len(DiskReport.rule_details) :
              LET d == DiskReport.rule_details[j]
                  total == DiskReport.totals.total
              IN  /\ d.pass_rate \in 0..RateScale
                  /\ NearestUnit(d.pass_rate, Rate(total - d.failed_count, total))

\* a report where four records fail REQUIRED_FIELDS and CURRENCY_ALLOWED
\* (three examples each, a pass_rate that is not a multiple of 0.0001) and
\* another record fails AMOUNT_RANGE
C21_Witness ==
    /\ ReportWritten
    /\ Len(DiskReport.rule_details) = 3
    /\ DiskReport.rule_details[1].rule_id = "AMOUNT_RANGE"
    /\ DiskReport.rule_details[1].failed_count = 1
    /\ DiskReport.rule_details[2].rule_id = "CURRENCY_ALLOWED"
    /\ DiskReport.rule_details[2].failed_count = 4
    /\ Len(DiskReport.rule_details[2].examples) = 3
    /\ DiskReport.rule_details[2].pass_rate * DiskReport.totals.total
           # (DiskReport.totals.total - 4) * RateScale
    /\ DiskReport.rule_details[3].rule_id = "REQUIRED_FIELDS"
    /\ DiskReport.rule_details[3].examples = DiskReport.rule_details[2].examples
    /\ DiskReport.totals.invalid = 5

ReaderNames == {"csv", "json", "txt", "cobol"}

ManifestOnDisk == pc # "idle" /\ IsSome(disk.run_manifest)

\* C22: whenever ingestion succeeds, input.format and input.format_resolved
\* of the manifest are one of csv, json, txt, cobol and name the reader
\* branch read_requests used; and whenever _resolve_format yields a value
\* outside that set, read_requests fails.
C22_ResolvedFormatNamesReader ==
    ManifestOnDisk =>
        /\ IngestResult.ok =>
              /\ DiskManifest.input.format \in ReaderNames
              /\ DiskManifest.input.format_resolved = DiskManifest.input.format
              /\ DiskManifest.input.format = ReaderBranch(args.file.suffix, args.format)
        /\ _resolve_format(args.file.suffix, args.format) \notin ReaderNames =>
              ~IngestResult.ok

\* the same for the requested formats auto, csv, json, txt and cobol only
C22_ListedFormats ==
    (ManifestOnDisk /\ Lower(Strip(args.format)) \in ReaderNames \cup {"auto"}) =>
        /\ IngestResult.ok =>
              /\ DiskManifest.input.format \in ReaderNames
              /\ DiskManifest.input.format_resolved = DiskManifest.input.format
              /\ DiskManifest.input.format = ReaderBranch(args.file.suffix, args.format)
        /\ _resolve_format(args.file.suffix, args.format) \notin ReaderNames =>
              ~IngestResult.ok

GateOfRun == pc # "idle" /\ IsSome(gate) /\ IsSome(manifest.counts)

\* the gate of a run under the default policy: WARN by the acceptance rule
\* iff total = 0, and with total > 0 every WARN is by the rejection rule
C23_GateOfRun ==
    GateOfRun =>
        LET g == TheVal(gate)
            total == TheVal(manifest.counts).total
        IN  /\ manifest.quality_gate.policy =
                   Some([policy_id |-> "quality_gate.v1", max_rejection_rate |-> 4000,
                         min_acceptance_rate |-> 1000])
            /\ (g.decision = "WARN" /\ g.rationale.text = "Acceptance rate below minimum")
                   <=> total = 0
            /\ (total > 0 /\ g.decision = "WARN") =>
                   /\ g.rationale.text = "Rejection rate above threshold"
                   /\ 10 * TheVal(manifest.counts).invalid > 4 * total

\* C23: under the default policy the acceptance-rate rule produces WARN
\* exactly in the runs with total = 0; a successfully ingested input of
\* zero records ends with gate decision WARN and status
\* COMPLETED_WITH_WARNINGS, and in every run with total > 0 any WARN is
\* produced by the rejection-rate rule.
C23_EmptyInputWarns ==
    /\ C23_GateOfRun
    /\ (MainEnded /\ IngestResult.ok /\ raw_rows = <<>>) =>
          /\ rc = Some(0)
          /\ DiskManifest.status = "COMPLETED_WITH_WARNINGS"
          /\ DiskManifest.counts = Some([total |-> 0, valid |-> 0, invalid |-> 0])
          /\ DiskManifest.quality_gate.decision = Some("WARN")
          /\ TheVal(DiskManifest.quality_gate.rationale).text = "Acceptance rate below minimum"
          /\ DiskReport.quality_gate.decision = "WARN"

\* a run of a header-only CSV file that has ended with the warning
C23_Witness ==
    /\ pc = "done"
    /\ args.file.content.kind = "table"
    /\ IngestResult.ok
    /\ raw_rows = <<>>
    /\ TheVal(gate).rationale.text = "Acceptance rate below minimum"
    /\ DiskManifest.status = "COMPLETED_WITH_WARNINGS"

====
